---- MODULE Spec2Model ----
(***************************************************************************)
(* Model of the location_app contact pipeline and admin dashboard.         *)
(*                                                                         *)
(*   ContactForm   (handleChange, getDeviceLocation, getVisitorData,       *)
(*                  handleSubmit): enrichment followed by the store append *)
(*                  with retry and exponential backoff.                    *)
(*   AdminDashboard (fetchSubmissions, the stats effect, the search,       *)
(*                  column, sort, page and selection handlers,             *)
(*                  handleBulkDelete, handleExport, and the filter / sort  *)
(*                  / pagination of a render).                             *)
(*                                                                         *)
(* The two components share no state in the program. Over the one set of   *)
(* variables there are seven specifications:                               *)
(*   Spec       the contact form;                                          *)
(*   FairSpec   the contact form when every awaited promise settles;       *)
(*   AdminSpec  load, selection and bulk deletes up to MaxBulk at a time;  *)
(*   OverlapSpec  the same with select all and bulk deletes that overlap;  *)
(*   ViewSpec   load, every control of the dashboard and one bulk delete   *)
(*              at a time;                                                 *)
(*   QuerySpec  one render and one export from any state of the controls;  *)
(*   LoadSpec   the load alone, over documents of every stored shape.      *)
(***************************************************************************)
EXTENDS Integers, Sequences, FiniteSets, TLC

VARIABLES
    \* ---- ContactForm component state (useState) ----
    formData,        \* {name, email, message}
    isSubmitting,    \* boolean
    submitStatus,    \* null | 'success' | 'error'
    \* ---- one run of handleSubmit (locals of the async function) ----
    pc,              \* where the async function is suspended
    subForm,         \* formData as captured by the handler's closure
    ip,              \* const ip = ipData.ip
    deviceLocation,  \* let deviceLocation
    contactData,     \* const contactData
    retryCount,      \* let retryCount
    lastError,       \* let lastError
    timer,           \* the delay of the pending setTimeout, 0 when none is pending
    caught,          \* the error received by the outer catch of handleSubmit
    \* ---- environment of the form ----
    store,           \* the 'contacts' collection as written by addDoc
    \* ---- observation of one submission ----
    log,             \* external calls, timers and state setters, in order
    subCount,        \* submissions started so far
    \* ---- AdminDashboard component state (useState) ----
    submissions,     \* the in-memory snapshot
    loading,
    error,
    selectedItems,
    currentPage,
    visibleColumns,  \* column key -> boolean
    searchTerm,
    sortConfig,      \* {key, direction}
    stats,           \* {total, today, thisWeek, thisMonth}
    \* ---- environment of the dashboard ----
    statsAt,         \* new Date() as read by the last run of the stats effect
    engine,          \* the implementation of Array.prototype.sort of the browser
    view,            \* what the last render computed from the state
    exported,        \* what the last run of handleExport put in the downloaded file
    docs,            \* the 'contacts' collection as read / deleted by the admin
    bulk,            \* the handleBulkDelete calls with a deleteDoc still pending
    lastDone         \* the handleBulkDelete call whose last deleteDoc settled in the step just taken

formVars == <<formData, isSubmitting, submitStatus, pc, subForm, ip, deviceLocation,
              contactData, retryCount, lastError, timer, caught, store, log, subCount>>
queryVars == <<currentPage, visibleColumns, searchTerm, sortConfig>>
statsVars == <<stats, statsAt>>
renderVars == <<engine, view, exported>>
adminVars == <<submissions, loading, error, selectedItems, docs, bulk, lastDone,
               queryVars, statsVars, renderVars>>
vars == <<formVars, adminVars>>

-----------------------------------------------------------------------------
(* Bounds of the model *)

MaxSubmissions == 2     \* submissions started in one behaviour
MaxDocs == 2            \* documents in the collection when the dashboard loads
MaxBulk == 1            \* bulk deletes running at the same time
MaxShown == 4           \* records of a collection whose render is examined
MaxPages == 2           \* full pages of the long collections
MaxLoad == 2            \* documents of any shape in a collection whose load is examined
MaxOverlap == 2         \* bulk deletes running at the same time where overlaps are examined

-----------------------------------------------------------------------------
(* Values *)

Null == "null"                       \* JS null for string-valued state
Undefined == "undefined"             \* a property the object does not have
NullObj == [isNull |-> TRUE]         \* JS null where an object is expected
NullNum == <<>>                      \* JS null where a number is expected
Num(n) == <<n>>                      \* a JS number

EmptyForm == [name |-> "", email |-> "", message |-> ""]
FieldNames == {"name", "email", "message"}
FieldValues == {"", "a"}

\* x || d
OrElse(x, d) == IF x \in {"", Undefined, Null} THEN d ELSE x

IpValues == {"203.0.113.7"}

\* what navigator.geolocation delivers to the success callback
Positions ==
    { [latitude |-> Num(0), longitude |-> Num(80), accuracy |-> Num(15)],
      [latitude |-> Num(7), longitude |-> Num(80), accuracy |-> Num(15)] }

\* bodies of the ipinfo.io response: every field, no field
LocationDataSet ==
    { [city |-> "Colombo", region |-> "Western", country |-> "LK",
       postal |-> "00100", timezone |-> "Asia/Colombo"],
      [city |-> Undefined, region |-> Undefined, country |-> Undefined,
       postal |-> Undefined, timezone |-> Undefined] }

\* ways a fetch fails: response.ok false, or the fetch promise rejects
FetchFailures == {"status", "network"}

\* ways getDeviceLocation rejects
GeoFailures == {"denied", "timeout", "unsupported"}

\* codes of a rejected addDoc
TerminalCodes == {"permission-denied", "unauthenticated"}
TransientCodes == {"unavailable"}
StoreCodes == TerminalCodes \cup TransientCodes

-----------------------------------------------------------------------------
(* getVisitorData and getDeviceLocation *)

\* the catch block around getDeviceLocation
DeviceLocationFallback ==
    [latitude |-> NullNum, longitude |-> NullNum, accuracy |-> NullNum]

\* const deviceDetails = {...}: read from navigator / window, always succeeds
DeviceDetails ==
    [userAgent |-> "UA", screenResolution |-> "1920x1080", language |-> "en",
     timezone |-> "Asia/Colombo", platform |-> "Linux", vendor |-> "V",
     cookiesEnabled |-> TRUE, doNotTrack |-> Null, online |-> TRUE]

\* const visitorData = {...}
BuildVisitorData(ipv, dev, loc, t) ==
    [ip |-> ipv,
     location |-> [latitude |-> dev.latitude,
                   longitude |-> dev.longitude,
                   accuracy |-> dev.accuracy,
                   city |-> OrElse(loc.city, "Unknown"),
                   region |-> OrElse(loc.region, "Unknown"),
                   country |-> OrElse(loc.country, "Unknown"),
                   postal |-> OrElse(loc.postal, "Unknown"),
                   timezone |-> OrElse(loc.timezone, "Unknown")],
     deviceDetails |-> DeviceDetails,
     timestamp |-> t]

\* variants of the catch block: one that lets the error escape to handleSubmit,
\* one that returns what had been gathered before the lookup failed
VisitorDataOnErrorRethrows(ipv, dev, t) ==
    [rethrow |-> TRUE, value |-> NullObj]
VisitorDataOnErrorPartial(ipv, dev, t) ==
    [rethrow |-> FALSE,
     value |-> [ip |-> ipv,
                location |-> IF dev = NullObj THEN DeviceLocationFallback ELSE dev,
                deviceDetails |-> DeviceDetails,
                timestamp |-> t]]

\* catch (error) { ...; return null; } of getVisitorData: the value the
\* function returns when a lookup threw, and whether it rethrows
VisitorDataOnError(ipv, dev, t) ==
    [rethrow |-> FALSE, value |-> NullObj]

\* variant without the `if (!ipResponse.ok) throw`
AfterIpLookupUnchecked(ok) == "deviceLocation"

\* what getVisitorData does once the IP lookup has settled: on success it
\* goes on to the device location, on failure it throws into its catch
AfterIpLookup(ok) == IF ok THEN "deviceLocation" ELSE "catch"

\* variant without the inner try/catch around getDeviceLocation
AfterDeviceLocationUncaught(ok) == IF ok THEN "ipGeo" ELSE "catch"

\* what getVisitorData does once getDeviceLocation has settled: both the
\* resolved and the rejected promise lead to the IP-geo lookup
AfterDeviceLocation(ok) == "ipGeo"

-----------------------------------------------------------------------------
(* handleSubmit: the retry loop *)

maxRetries == 3

\* a rejected addDoc: the FirebaseError object of attempt n
StoreError(code, n) == [code |-> code, message |-> "firestore", attempt |-> n]

\* throw new Error('...') in the permission-denied / unauthenticated branches
ReplacementError(code) ==
    [code |-> Undefined,
     message |-> IF code = "permission-denied"
                    THEN "Permission denied. Please check your Firebase security rules."
                    ELSE "Authentication required. Please check your Firebase configuration.",
     attempt |-> 0]

\* variant that forgets the 'unauthenticated' branch
IsTerminalPermissionOnly(code) == code = "permission-denied"

\* error.code === 'permission-denied' || error.code === 'unauthenticated'
IsTerminal(code) == code = "permission-denied" \/ code = "unauthenticated"

\* variant that compares against one attempt too many
BudgetExhaustedLate(rc) == rc = maxRetries + 1

\* if (retryCount === maxRetries) throw lastError
BudgetExhausted(rc) == rc = maxRetries

\* while (retryCount < maxRetries)
LoopContinues(rc) == rc < maxRetries

\* variant that logs the count of failures so far as the attempt number
AttemptNumberFromZero(rc) == rc

\* ${retryCount + 1} of the log line written before addDoc
AttemptNumber(rc) == rc + 1

\* variant that leaves the status as the handler set it at its start
StatusKept(prev) == prev

RECURSIVE Pow2(_)
Pow2(k) == IF k = 0 THEN 1 ELSE 2 * Pow2(k - 1)

\* variant that computes the delay before retryCount is incremented
BackoffDelayFromZero(rc) == Pow2(rc - 1) * 1000

\* variant whose delay is the same two seconds before every retry
BackoffDelayFlat(rc) == Pow2(1) * 1000

\* const delay = Math.pow(2, retryCount) * 1000
BackoffDelay(rc) == Pow2(rc) * 1000

\* variant without the setFormData call
FormKept(f) == f

\* setFormData({ name: '', email: '', message: '' }) after a successful addDoc
FormAfterSuccess(f) == EmptyForm

\* the status set once control has reached the outer catch
StatusAfterCatch(prev) == "error"

-----------------------------------------------------------------------------
(* Initial state of the form *)

FormInit ==
    /\ formData = EmptyForm
    /\ isSubmitting = FALSE
    /\ submitStatus = Null
    /\ pc = "idle"
    /\ subForm = EmptyForm
    /\ ip = Undefined
    /\ deviceLocation = NullObj
    /\ contactData = NullObj
    /\ retryCount = 0
    /\ lastError = NullObj
    /\ timer = 0
    /\ caught = NullObj
    /\ store = <<>>
    /\ log = <<>>
    /\ subCount = 0

-----------------------------------------------------------------------------
(* Observation: one entry per external call, timer and state setter *)

Ev(e, n, c) == [ev |-> e, n |-> n, code |-> c]

\* new Date(): time is read at the grain of submissions, the n-th submission
\* reading the instant n
Now == subCount

\* what a step of a running submission leaves alone
FormEnvUnchanged == UNCHANGED <<subCount, timer>>

\* finally { setIsSubmitting(false) }: the handler has run to its end
Finally(lg) ==
    /\ isSubmitting' = FALSE
    /\ pc' = "idle"
    /\ log' = lg \o <<Ev("setIsSubmitting", 0, "false")>>

\* the outer catch of handleSubmit followed by its finally
OuterCatch(err, lg) ==
    /\ caught' = err
    /\ submitStatus' = StatusAfterCatch(submitStatus)
    /\ Finally(lg \o <<Ev("setSubmitStatus", 0, StatusAfterCatch(submitStatus))>>)

\* handleSubmit from the return of getVisitorData to the first addDoc call:
\* contactData is prepared and the retry loop is entered with retryCount = 0
PrepareAndSave(vd, lg) ==
    /\ contactData' = [name |-> subForm.name, email |-> subForm.email,
                       message |-> subForm.message, visitorData |-> vd,
                       submittedAt |-> Now]
    /\ IF LoopContinues(0)
          THEN /\ pc' = "addDoc"
               /\ log' = lg \o <<Ev("enriched", 0, ""), Ev("attempt", AttemptNumber(0), "")>>
               /\ UNCHANGED <<isSubmitting>>
          ELSE Finally(lg \o <<Ev("enriched", 0, "")>>)
    /\ UNCHANGED <<submitStatus, caught>>

\* the catch block of getVisitorData, then handleSubmit's continuation
VisitorDataCatch(ipv, dev, lg) ==
    LET r == VisitorDataOnError(ipv, dev, Now) IN
    IF r.rethrow
       THEN /\ OuterCatch([code |-> Undefined, message |-> "enrichment", attempt |-> 0], lg)
            /\ UNCHANGED contactData
       ELSE PrepareAndSave(r.value, lg)

-----------------------------------------------------------------------------
(* Actions of the form *)

\* handleChange: the submitter edits one field (the inputs stay enabled
\* while a submission is running)
HandleChange ==
    \E f \in FieldNames, v \in FieldValues :
        /\ formData[f] # v
        /\ formData' = [formData EXCEPT ![f] = v]
        /\ UNCHANGED <<isSubmitting, submitStatus, pc, subForm, ip, deviceLocation,
                       contactData, retryCount, lastError, timer, caught, store, log,
                       subCount>>
        /\ UNCHANGED adminVars

\* handleSubmit up to its first await: the IP lookup request of getVisitorData.
\* The submit button is disabled while isSubmitting, and the three inputs are
\* `required`.
HandleSubmit ==
    /\ pc = "idle"
    /\ ~isSubmitting
    /\ subCount < MaxSubmissions
    /\ \A f \in FieldNames : formData[f] # ""
    /\ isSubmitting' = TRUE
    /\ submitStatus' = Null
    /\ subForm' = formData
    /\ ip' = Undefined
    /\ deviceLocation' = NullObj
    /\ contactData' = NullObj
    /\ retryCount' = 0
    /\ lastError' = NullObj
    /\ caught' = NullObj
    /\ pc' = "ipLookup"
    /\ log' = <<Ev("setIsSubmitting", 0, "true"), Ev("setSubmitStatus", 0, Null),
                Ev("ipRequest", 0, "")>>
    /\ subCount' = subCount + 1
    /\ UNCHANGED <<formData, store, timer>>
    /\ UNCHANGED adminVars

\* the fetch of api.ipify.org settles
IpLookupSettle ==
    /\ pc = "ipLookup"
    /\ \E ok \in BOOLEAN, ipv \in IpValues, why \in FetchFailures :
        LET lg == log \o <<IF ok THEN Ev("ipOk", 0, ipv) ELSE Ev("ipFail", 0, why)>>
            got == IF ok THEN ipv ELSE Undefined
        IN
        /\ ip' = got
        /\ IF AfterIpLookup(ok) = "deviceLocation"
              THEN /\ pc' = "deviceLocation"
                   /\ log' = lg \o <<Ev("deviceLocationRequest", 0, "")>>
                   /\ UNCHANGED <<contactData, isSubmitting, submitStatus, caught>>
              ELSE VisitorDataCatch(got, deviceLocation, lg)
    /\ UNCHANGED <<formData, subForm, deviceLocation, retryCount, lastError, store>>
    /\ FormEnvUnchanged
    /\ UNCHANGED adminVars

\* getDeviceLocation settles: a position, or a rejection that the inner
\* catch of getVisitorData replaces by null coordinates
DeviceLocationSettle ==
    /\ pc = "deviceLocation"
    /\ \E ok \in BOOLEAN, pos \in Positions, why \in GeoFailures :
        LET dev == IF ok THEN pos ELSE DeviceLocationFallback
            lg == log \o <<IF ok THEN Ev("deviceLocationOk", 0, "")
                                 ELSE Ev("deviceLocationFail", 0, why)>>
        IN
        /\ deviceLocation' = dev
        /\ IF AfterDeviceLocation(ok) = "ipGeo"
              THEN /\ pc' = "ipGeo"
                   /\ log' = lg \o <<Ev("ipGeoRequest", 0, ip)>>
                   /\ UNCHANGED <<contactData, isSubmitting, submitStatus, caught>>
              ELSE VisitorDataCatch(ip, dev, lg)
    /\ UNCHANGED <<formData, subForm, ip, retryCount, lastError, store>>
    /\ FormEnvUnchanged
    /\ UNCHANGED adminVars

\* the fetch of ipinfo.io settles; getVisitorData returns, handleSubmit
\* prepares contactData and issues the first addDoc
IpGeoSettle ==
    /\ pc = "ipGeo"
    /\ \E ok \in BOOLEAN, loc \in LocationDataSet, why \in FetchFailures :
        IF ok
           THEN PrepareAndSave(BuildVisitorData(ip, deviceLocation, loc, Now),
                               log \o <<Ev("ipGeoOk", 0, "")>>)
           ELSE VisitorDataCatch(ip, deviceLocation, log \o <<Ev("ipGeoFail", 0, why)>>)
    /\ UNCHANGED <<formData, subForm, ip, deviceLocation, retryCount, lastError, store>>
    /\ FormEnvUnchanged
    /\ UNCHANGED adminVars

\* addDoc resolves: success status, form reset, break, finally
AddDocOk ==
    /\ pc = "addDoc"
    /\ store' = Append(store, [id |-> Len(store) + 1, data |-> contactData])
    /\ submitStatus' = "success"
    /\ formData' = FormAfterSuccess(formData)
    /\ Finally(log \o <<Ev("addDocOk", retryCount + 1, ""),
                        Ev("setSubmitStatus", 0, "success"),
                        Ev("setFormData", 0, "")>>)
    /\ UNCHANGED <<subForm, ip, deviceLocation, contactData, retryCount, lastError,
                   caught>>
    /\ FormEnvUnchanged
    /\ UNCHANGED adminVars

\* addDoc rejects: the catch block of the retry loop
AddDocFail ==
    /\ pc = "addDoc"
    /\ \E code \in StoreCodes :
        LET rc == retryCount + 1
            err == StoreError(code, rc)
            lg == log \o <<Ev("addDocFail", rc, code)>>
        IN
        /\ lastError' = err
        /\ retryCount' = rc
        /\ IF IsTerminal(code)
              THEN OuterCatch(ReplacementError(code), lg) /\ UNCHANGED timer
              ELSE IF BudgetExhausted(rc)
                      THEN OuterCatch(err, lg) /\ UNCHANGED timer
                      ELSE /\ pc' = "backoff"
                           /\ timer' = BackoffDelay(rc)
                           /\ log' = lg \o <<Ev("wait", BackoffDelay(rc), "")>>
                           /\ UNCHANGED <<isSubmitting, submitStatus, caught>>
    /\ UNCHANGED <<formData, subForm, ip, deviceLocation, contactData, store>>
    /\ UNCHANGED subCount
    /\ UNCHANGED adminVars

\* the backoff timer fires: the while condition
\* is tested again and the next addDoc is issued
BackoffElapsed ==
    /\ pc = "backoff"
    /\ timer' = 0
    /\ IF LoopContinues(retryCount)
          THEN /\ pc' = "addDoc"
               /\ log' = log \o <<Ev("attempt", AttemptNumber(retryCount), "")>>
               /\ UNCHANGED isSubmitting
          ELSE Finally(log)
    /\ UNCHANGED <<formData, submitStatus, subForm, ip, deviceLocation, contactData,
                   retryCount, lastError, caught, store, subCount>>
    /\ UNCHANGED adminVars

-----------------------------------------------------------------------------
(* The form's specification *)

\* the dashboard is not mounted
AdminIdle ==
    /\ submissions = <<>>
    /\ loading = TRUE
    /\ error = Null
    /\ selectedItems = <<>>
    /\ currentPage = 1
    /\ visibleColumns = [k \in {"name", "email", "message", "submittedAt", "ipAddress",
                                "location", "deviceInfo", "screenResolution"} |-> TRUE]
    /\ searchTerm = <<>>
    /\ sortConfig = [key |-> "submittedAt", direction |-> "desc"]
    /\ stats = [total |-> 0, today |-> 0, thisWeek |-> 0, thisMonth |-> 0]
    /\ statsAt = 0
    /\ engine = "timsort"
    /\ view = NullObj
    /\ exported = NullObj
    /\ docs = <<>>
    /\ bulk = <<>>
    /\ lastDone = NullObj

Init == FormInit /\ AdminIdle

Next ==
    \/ HandleChange
    \/ HandleSubmit
    \/ IpLookupSettle
    \/ DeviceLocationSettle
    \/ IpGeoSettle
    \/ AddDocOk
    \/ AddDocFail
    \/ BackoffElapsed

Spec == Init /\ [][Next]_vars

\* the same behaviours when every awaited promise settles: the three fetches
\* of getVisitorData, addDoc (one way or the other) and the timer of the
\* backoff; the visitor is under no obligation to type or to submit
FairSpec ==
    /\ Spec
    /\ WF_vars(IpLookupSettle)
    /\ WF_vars(DeviceLocationSettle)
    /\ WF_vars(IpGeoSettle)
    /\ WF_vars(AddDocOk \/ AddDocFail)
    /\ WF_vars(BackoffElapsed)

-----------------------------------------------------------------------------
(* AdminDashboard *)

Range(s) == { s[i] : i \in 1..Len(s) }

-----------------------------------------------------------------------------
(* Strings of the dashboard: a string is the sequence of its characters, the *)
(* empty sequence is '' (and, in a stored document, also a missing field)    *)

Upper == << "A", "B", "C", "D", "E", "F", "G", "H", "I", "J", "K", "L", "M",
            "N", "O", "P", "Q", "R", "S", "T", "U", "V", "W", "X", "Y", "Z" >>
Lower == << "a", "b", "c", "d", "e", "f", "g", "h", "i", "j", "k", "l", "m",
            "n", "o", "p", "q", "r", "s", "t", "u", "v", "w", "x", "y", "z" >>
Digits == << "0", "1", "2", "3", "4", "5", "6", "7", "8", "9" >>

\* String.prototype.toLowerCase
LowerOf == [c \in { Upper[i] : i \in 1..Len(Upper) } |->
               Lower[CHOOSE i \in 1..Len(Upper) : Upper[i] = c]]
LowerChar(c) == IF c \in DOMAIN LowerOf THEN LowerOf[c] ELSE c
ToLowerCase(str) == [i \in 1..Len(str) |-> LowerChar(str[i])]

\* String.prototype.includes
Includes(str, part) ==
    \E o \in 0..(Len(str) - Len(part)) : SubSeq(str, o + 1, o + Len(part)) = part

\* Array.prototype.join
RECURSIVE Join(_, _)
Join(parts, sep) ==
    IF parts = <<>> THEN <<>>
    ELSE IF Len(parts) = 1 THEN parts[1]
    ELSE parts[1] \o sep \o Join(Tail(parts), sep)

\* the order of characters under localeCompare: space and punctuation, then
\* digits, then letters
Collation == << " ", ",", ":", ".", "\"", "@", "/", "+" >> \o Digits \o Lower \o Upper
RankOf == [c \in { Collation[i] : i \in 1..Len(Collation) } |->
              CHOOSE i \in 1..Len(Collation) : Collation[i] = c]
Rank(c) == RankOf[c]

\* String.prototype.localeCompare on lower-cased strings: -1, 0 or 1
RECURSIVE LocaleCompare(_, _)
LocaleCompare(x, y) ==
    IF x = <<>> /\ y = <<>> THEN 0
    ELSE IF x = <<>> THEN -1
    ELSE IF y = <<>> THEN 1
    ELSE IF Rank(x[1]) < Rank(y[1]) THEN -1
    ELSE IF Rank(x[1]) > Rank(y[1]) THEN 1
    ELSE LocaleCompare(Tail(x), Tail(y))

-----------------------------------------------------------------------------
(* Time of the dashboard: seconds, counted from local midnight of the first  *)
(* day of the current month (Sunday 1 November 2026)                         *)

Day == 24 * 60 * 60
DaysLastMonth == 31

\* new Date(now.getFullYear(), now.getMonth(), now.getDate())
Today(now) == now - (now % Day)
\* new Date(today.getTime() - 7 * 24 * 60 * 60 * 1000)
WeekAgo(now) == Today(now) - 7 * Day
\* new Date(today.getFullYear(), today.getMonth(), 1)
MonthAgo(now) == IF Today(now) >= 0 THEN 0 ELSE 0 - DaysLastMonth * Day

TwoDigits(n) == << Digits[(n \div 10) + 1], Digits[(n % 10) + 1] >>
WeekdayNames == << <<"S", "u", "n">>, <<"M", "o", "n">>, <<"T", "u", "e">>, <<"W", "e", "d">>, <<"T", "h", "u">>, <<"F", "r", "i">>, <<"S", "a", "t">> >>

\* Date.prototype.toString, up to and including the offset from <<"G", "M", "T", "+", "0", "5", "3", "0">>
DateToString(t) ==
    LET d == t \div Day
        sec == t % Day
    IN WeekdayNames[(d % 7) + 1] \o <<" ">>
       \o (IF d >= 0 THEN <<"N", "o", "v">> ELSE <<"O", "c", "t">>) \o <<" ">>
       \o TwoDigits(IF d >= 0 THEN d + 1 ELSE DaysLastMonth + d + 1) \o <<" ">>
       \o <<"2", "0", "2", "6">> \o <<" ">>
       \o TwoDigits(sec \div 3600) \o <<":">>
       \o TwoDigits((sec % 3600) \div 60) \o <<":">>
       \o TwoDigits(sec % 60) \o <<" ">> \o <<"G", "M", "T", "+", "0", "5", "3", "0">>

-----------------------------------------------------------------------------
(* The 'contacts' collection and fetchSubmissions *)

\* the documents of the 'contacts' collection, newest first
\* Date.getTime() of the local midnight that starts the month, in seconds
Origin == 1793471400

\* a Timestamp of the store for the instant t
Stamp(t) == [kind |-> "timestamp", seconds |-> Origin + t]

AllDocs ==
    << [id |-> "A", data |-> [name |-> <<"C", "y">>, email |-> <<"c", "y", "@", "x", ".", "i", "o">>, message |-> <<"H", "i">>,
                             visitorData |-> NullObj, submittedAt |-> Stamp(9 * Day)]],
       [id |-> "B", data |-> [name |-> <<"B", "o", "b">>, email |-> <<"b", "o", "b", "@", "x", ".", "i", "o">>, message |-> <<"y", "o">>,
                             visitorData |->
                                 [ip |-> <<"1", "0", ".", "0", ".", "0", ".", "7">>,
                                  location |-> [latitude |-> Num(7), longitude |-> Num(80),
                                                city |-> <<"C", "o", "l", "o", "m", "b", "o">>, region |-> <<"U", "n", "k", "n", "o", "w", "n">>,
                                                country |-> <<"L", "K">>],
                                  deviceDetails |-> [platform |-> <<"L", "i", "n", "u", "x">>,
                                                     screenResolution |-> <<"8", "0", "0", "x", "6", "0", "0">>]],
                             submittedAt |-> Stamp(2 * Day)]],
       [id |-> "C", data |-> [name |-> <<>>, email |-> <<"n", "@", "x", ".", "i", "o">>, message |-> <<>>,
                             visitorData |-> NullObj, submittedAt |-> Stamp(0)]],
       [id |-> "D", data |-> [name |-> <<"A", "n", "n">>, email |-> <<"a", "n", "n", "@", "x", ".", "i", "o">>, message |-> <<"B", "o", "o">>,
                             visitorData |->
                                 [ip |-> <<>>,
                                  location |-> NullObj,
                                  deviceDetails |-> [platform |-> <<>>,
                                                     screenResolution |-> <<>>]],
                             submittedAt |-> Stamp(0 - 1)]],
       [id |-> "E", data |-> [name |-> <<"D", "i">>, email |-> <<"d", "i", "@", "x", ".", "i", "o">>, message |-> <<"H", "i">>,
                             visitorData |-> NullObj, submittedAt |-> Stamp(0 - Day)]],
       [id |-> "F", data |-> [name |-> <<"B", "o", "b">>, email |-> <<"b", "o", "b", "@", "x", ".", "i", "o">>, message |-> <<>>,
                             visitorData |-> NullObj, submittedAt |-> Stamp(0 - 2 * Day)]],
       [id |-> "G", data |-> [name |-> <<"J", "a", "n", "e", " ", "\"", "J", "J", "\"", " ", "D", "o", "e", ",", " ",
                                        "E", "s", "q", ".">>,
                             email |-> <<"j", "j", "@", "x", ".", "i", "o">>, message |-> <<"H", "i">>,
                             visitorData |-> NullObj, submittedAt |-> Stamp(0 - 3 * Day)]] >>

\* x || d on strings
OrStr(x, d) == IF x = <<>> THEN d ELSE x

\* the three parts joined whether present or not
LocationStringOfAll(location) ==
    IF location = NullObj THEN <<"N", "/", "A">>
    ELSE Join(<<location.city, location.region, location.country>>, <<",", " ">>)

\* getLocationString
GetLocationString(location) ==
    IF location = NullObj THEN <<"N", "/", "A">>
    ELSE LET parts == SelectSeq(<<location.city, location.region, location.country>>,
                                LAMBDA x : x # <<>>)
         IN IF Len(parts) > 0 THEN Join(parts, <<",", " ">>) ELSE <<"N", "/", "A">>

\* data.visitorData?.ip || ''  and the like
VisitorField(vd, f) == IF vd = NullObj THEN <<>> ELSE OrStr(vd[f], <<>>)
DeviceField(vd, f) ==
    IF vd = NullObj THEN <<>>
    ELSE IF vd.deviceDetails = NullObj THEN <<>>
    ELSE OrStr(vd.deviceDetails[f], <<>>)
VisitorLocation(vd) == IF vd = NullObj THEN NullObj ELSE vd.location

\* String(n) of an integer
RECURSIVE NaturalToString(_)
NaturalToString(n) ==
    IF n < 10 THEN <<Digits[n + 1]>>
    ELSE NaturalToString(n \div 10) \o <<Digits[(n % 10) + 1]>>
NumberToString(n) == IF n < 0 THEN <<"-">> \o NaturalToString(0 - n) ELSE NaturalToString(n)

\* a number in a condition: null, undefined and 0 are falsy
NumTruthy(x) == x # NullNum /\ x[1] # 0

\* the test of getCoordinates that only looks at the latitude
HasLatitude(location) ==
    IF location = NullObj THEN FALSE ELSE NumTruthy(location.latitude)

\* location?.latitude && location?.longitude
HasCoordinates(location) ==
    IF location = NullObj THEN FALSE
    ELSE NumTruthy(location.latitude) /\ NumTruthy(location.longitude)

\* a string or null: <<>> is null, <<s>> is the string s
NullStr == <<>>
Str(s) == <<s>>

\* the number behind location.latitude when getCoordinates reads it
NumberOr(x, d) == IF x = NullNum THEN d ELSE x[1]

\* getCoordinates
GetCoordinates(location) ==
    IF HasCoordinates(location)
       THEN Str(NumberToString(NumberOr(location.latitude, 0)) \o <<",", " ">>
                    \o NumberToString(NumberOr(location.longitude, 0)))
       ELSE NullStr

MapsPrefix ==
    <<"h", "t", "t", "p", "s", ":", "/", "/", "w", "w", "w", ".", "g", "o", "o", "g", "l", "e", ".",
      "c", "o", "m", "/", "m", "a", "p", "s", "?", "q", "=">>

\* getGoogleMapsUrl
GetGoogleMapsUrl(location) ==
    LET coords == GetCoordinates(location)
    IN IF coords # NullStr /\ coords[1] # <<>> THEN Str(MapsPrefix \o coords[1]) ELSE NullStr

\* the stored value of submittedAt in a condition
StoredTruthy(stored) ==
    CASE stored.kind = "missing" -> FALSE
      [] stored.kind = "number" -> stored.value # 0
      [] stored.kind = "string" -> stored.text # <<>>
      [] stored.kind = "boolean" -> stored.flag
      [] OTHER -> TRUE

\* the value of one digit, the number two digits write
DigitValue == [c \in Range(Digits) |-> (CHOOSE i \in 1..10 : Digits[i] = c) - 1]
IsDigit(c) == c \in DOMAIN DigitValue
TwoDigitValue(text, at) == 10 * DigitValue[text[at]] + DigitValue[text[at + 1]]

\* the local clock is 5 h 30 min ahead of UTC
UtcOffset == 19800

\* the months the model's calendar covers, and the days of each
MonthStart == [m \in {10, 11} |-> IF m = 10 THEN 0 - DaysLastMonth ELSE 0]
MonthDays == [m \in {10, 11} |-> IF m = 10 THEN 31 ELSE 30]

\* new Date(text).getTime() for the strings the store holds: the format of
\* Date.prototype.toISOString, 2026-MM-DDTHH:mm:ss.sssZ, is read as the
\* instant it writes; any other text gives an Invalid Date (NullNum)
ParseDate(text) ==
    IF /\ Len(text) = 24
       /\ SubSeq(text, 1, 5) = <<"2", "0", "2", "6", "-">>
       /\ \A i \in {6, 7, 9, 10, 12, 13, 15, 16, 18, 19, 21, 22, 23} : IsDigit(text[i])
       /\ text[8] = "-" /\ text[11] = "T" /\ text[14] = ":" /\ text[17] = ":"
       /\ text[20] = "." /\ text[24] = "Z"
       /\ TwoDigitValue(text, 6) \in DOMAIN MonthStart
       /\ TwoDigitValue(text, 9) \in 1..MonthDays[TwoDigitValue(text, 6)]
       /\ TwoDigitValue(text, 12) < 24
       /\ TwoDigitValue(text, 15) < 60
       /\ TwoDigitValue(text, 18) < 60
    THEN Num((MonthStart[TwoDigitValue(text, 6)] + TwoDigitValue(text, 9) - 1) * Day
             + TwoDigitValue(text, 12) * 3600 + TwoDigitValue(text, 15) * 60
             + TwoDigitValue(text, 18) + UtcOffset)
    ELSE NullNum

\* let submittedAt after the if chain: undefined, an Invalid Date or a Date
StoredDate(stored) ==
    IF ~StoredTruthy(stored) THEN [date |-> "undefined"]
    ELSE CASE stored.kind = "timestamp" -> [date |-> "valid", time |-> stored.seconds - Origin]
           [] stored.kind = "date" -> [date |-> "valid", time |-> stored.time]
           [] stored.kind = "string" ->
                  LET time == ParseDate(stored.text)
                  IN IF time = NullNum THEN [date |-> "invalid"]
                     ELSE [date |-> "valid", time |-> time[1]]
           [] stored.kind = "number" -> [date |-> "valid", time |-> stored.value - Origin]
           [] OTHER -> [date |-> "undefined"]

\* the fallback that is the epoch instead of the time of the load
SubmittedAtOrEpoch(stored, now) ==
    LET date == StoredDate(stored)
    IN IF date.date # "valid" THEN 0 - Origin ELSE date.time

\* if (!submittedAt || isNaN(submittedAt.getTime())) submittedAt = new Date()
SubmittedAtOf(stored, now) ==
    LET date == StoredDate(stored)
    IN IF date.date # "valid" THEN now ELSE date.time

\* the record fetchSubmissions builds from one document, read at now
MapDoc(d, now) ==
    [id |-> d.id,
     name |-> OrStr(d.data.name, <<>>),
     email |-> OrStr(d.data.email, <<>>),
     message |-> OrStr(d.data.message, <<>>),
     submittedAt |-> SubmittedAtOf(d.data.submittedAt, now),
     ipAddress |-> VisitorField(d.data.visitorData, "ip"),
     location |-> GetLocationString(VisitorLocation(d.data.visitorData)),
     coordinates |-> GetCoordinates(VisitorLocation(d.data.visitorData)),
     googleMapsUrl |-> GetGoogleMapsUrl(VisitorLocation(d.data.visitorData)),
     deviceInfo |-> DeviceField(d.data.visitorData, "platform"),
     screenResolution |-> DeviceField(d.data.visitorData, "screenResolution")]

\* the array in the opposite order
MappedReversed(ds, now) == [i \in 1..Len(ds) |-> MapDoc(ds[Len(ds) + 1 - i], now)]

\* querySnapshot.docs.map(...): one record per document, in the order of the query
Mapped(ds, now) == [i \in 1..Len(ds) |-> MapDoc(ds[i], now)]

-----------------------------------------------------------------------------
(* The stats effect *)

\* the same counts with the boundaries excluded
StatsExclusive(subs, now) ==
    [total |-> Len(subs),
     today |-> Len(SelectSeq(subs, LAMBDA r : r.submittedAt > Today(now))),
     thisWeek |-> Len(SelectSeq(subs, LAMBDA r : r.submittedAt > WeekAgo(now))),
     thisMonth |-> Len(SelectSeq(subs, LAMBDA r : r.submittedAt > MonthAgo(now)))]

\* const stats = {...} of the effect on [submissions]
StatsOf(subs, now) ==
    [total |-> Len(subs),
     today |-> Len(SelectSeq(subs, LAMBDA r : r.submittedAt >= Today(now))),
     thisWeek |-> Len(SelectSeq(subs, LAMBDA r : r.submittedAt >= WeekAgo(now))),
     thisMonth |-> Len(SelectSeq(subs, LAMBDA r : r.submittedAt >= MonthAgo(now)))]

\* instants at which the effect reads the clock
Nows == {9 * Day, 10 * Day + 3600}

\* the effect runs after a render that installed a new submissions array
StatsEffectFrom(from) ==
    \E now \in Nows :
        /\ now >= from
        /\ statsAt' = now
        /\ stats' = StatsOf(submissions', now)

StatsEffect == StatsEffectFrom(statsAt)

-----------------------------------------------------------------------------
(* What a render derives from the state: filter, sort, pagination *)

\* Object.entries(visibleColumns), in insertion order
ColumnKeys == << "name", "email", "message", "submittedAt", "ipAddress", "location",
                 "deviceInfo", "screenResolution" >>
Columns == Range(ColumnKeys)
AllVisible == [k \in Columns |-> TRUE]

\* submission[key].toString()
FieldString(r, key) ==
    IF key = "submittedAt" THEN DateToString(r.submittedAt) ELSE r[key]

\* !submission[key] is false: a Date is an object, a string counts when not ''
FieldTruthy(r, key) == IF key = "submittedAt" THEN TRUE ELSE r[key] # <<>>

\* the predicate that looks at every column, shown or hidden
MatchesAnyColumn(r, cols, term) ==
    \E i \in 1..Len(ColumnKeys) :
        Includes(ToLowerCase(FieldString(r, ColumnKeys[i])), ToLowerCase(term))

\* the predicate of .filter(): some visible column contains the term
Matches(r, cols, term) ==
    \E i \in 1..Len(ColumnKeys) :
        /\ cols[ColumnKeys[i]]
        /\ Includes(ToLowerCase(FieldString(r, ColumnKeys[i])), ToLowerCase(term))

Filtered(subs, cols, term) == SelectSeq(subs, LAMBDA r : Matches(r, cols, term))

\* the comparator passed to .sort()
Compare(a, b, cfg) ==
    IF ~FieldTruthy(a, cfg.key) \/ ~FieldTruthy(b, cfg.key) THEN 0
    ELSE LET aValue == ToLowerCase(FieldString(a, cfg.key))
             bValue == ToLowerCase(FieldString(b, cfg.key))
         IN IF cfg.direction = "asc" THEN LocaleCompare(aValue, bValue)
                                     ELSE LocaleCompare(bValue, aValue)

Reverse(arr) == [i \in 1..Len(arr) |-> arr[Len(arr) + 1 - i]]
InsertAt(arr, pos, x) == SubSeq(arr, 1, pos) \o <<x>> \o SubSeq(arr, pos + 1, Len(arr))

\* Array.prototype.sort is implementation-defined when the comparator is not
\* consistent; two implementations for arrays of this size:
\*   "timsort"   V8: the leading run is found (and reversed when strictly
\*               descending), the rest is inserted by binary search;
\*   "insertion" SpiderMonkey's self-hosted sort: linear insertion sort.
Engines == {"timsort", "insertion"}

\* V8 CountAndMakeRun: the length of the run that starts the array (Len >= 2)
RECURSIVE RunEnd(_, _, _, _)
RunEnd(arr, idx, descending, cfg) ==
    IF idx > Len(arr) THEN idx - 1
    ELSE LET order == Compare(arr[idx], arr[idx - 1], cfg)
         IN IF (descending /\ order >= 0) \/ (~descending /\ order < 0)
               THEN idx - 1
               ELSE RunEnd(arr, idx + 1, descending, cfg)

\* V8 BinaryInsertionSort: the 0-based slot in arr[left+1..right] for pivot
RECURSIVE BinarySlot(_, _, _, _, _)
BinarySlot(arr, pivot, left, right, cfg) ==
    IF left >= right THEN left
    ELSE LET mid == left + ((right - left) \div 2)
         IN IF Compare(pivot, arr[mid + 1], cfg) < 0
               THEN BinarySlot(arr, pivot, left, mid, cfg)
               ELSE BinarySlot(arr, pivot, mid + 1, right, cfg)

RECURSIVE BinaryInsertionSort(_, _, _)
BinaryInsertionSort(arr, start, cfg) ==
    IF start > Len(arr) THEN arr
    ELSE LET sorted == SubSeq(arr, 1, start - 1)
             pivot == arr[start]
             slot == BinarySlot(sorted, pivot, 0, start - 1, cfg)
         IN BinaryInsertionSort(InsertAt(sorted, slot, pivot)
                                    \o SubSeq(arr, start + 1, Len(arr)),
                                start + 1, cfg)

TimSort(arr, cfg) ==
    IF Len(arr) < 2 THEN arr
    ELSE LET descending == Compare(arr[2], arr[1], cfg) < 0
             run == RunEnd(arr, 3, descending, cfg)
             made == IF descending
                        THEN Reverse(SubSeq(arr, 1, run)) \o SubSeq(arr, run + 1, Len(arr))
                        ELSE arr
         IN BinaryInsertionSort(made, run + 1, cfg)

\* linear insertion: the slot after the last element of the sorted prefix
\* that does not compare greater than the item, scanning from the right
RECURSIVE LinearSlot(_, _, _, _)
LinearSlot(sorted, item, j, cfg) ==
    IF j = 0 THEN 0
    ELSE IF Compare(sorted[j], item, cfg) <= 0 THEN j
    ELSE LinearSlot(sorted, item, j - 1, cfg)

RECURSIVE InsertionSort(_, _, _)
InsertionSort(arr, i, cfg) ==
    IF i > Len(arr) THEN arr
    ELSE LET sorted == SubSeq(arr, 1, i - 1)
             slot == LinearSlot(sorted, arr[i], i - 1, cfg)
         IN InsertionSort(InsertAt(sorted, slot, arr[i]) \o SubSeq(arr, i + 1, Len(arr)),
                          i + 1, cfg)

SortBy(eng, arr, cfg) ==
    IF eng = "timsort" THEN TimSort(arr, cfg) ELSE InsertionSort(arr, 2, cfg)

\* const filteredSubmissions = submissions.filter(...).sort(...)
FilteredSorted(eng, subs, cols, term, cfg) ==
    SortBy(eng, Filtered(subs, cols, term), cfg)

itemsPerPage == 10

\* a page count that forgets the last, partly filled page
FloorPages(n) == n \div itemsPerPage

\* Math.ceil(filteredSubmissions.length / itemsPerPage)
TotalPagesOf(n) ==
    IF n % itemsPerPage = 0 THEN n \div itemsPerPage ELSE (n \div itemsPerPage) + 1

Min(a, b) == IF a < b THEN a ELSE b
Max(a, b) == IF a > b THEN a ELSE b

\* Array.prototype.slice(from, to): a negative index counts from the end
RelativeIndex(i, len) == IF i < 0 THEN Max(len + i, 0) ELSE Min(i, len)
Slice(arr, from, to) ==
    SubSeq(arr, RelativeIndex(from, Len(arr)) + 1, RelativeIndex(to, Len(arr)))

\* filteredSubmissions.slice((currentPage - 1) * itemsPerPage, currentPage * itemsPerPage)
PageOf(filtered, page) ==
    Slice(filtered, (page - 1) * itemsPerPage, page * itemsPerPage)

\* the values of one render
FilteredSubmissions ==
    FilteredSorted(engine, submissions, visibleColumns, searchTerm, sortConfig)
TotalPages == TotalPagesOf(Len(FilteredSubmissions))
PaginatedSubmissions == PageOf(FilteredSubmissions, currentPage)

-----------------------------------------------------------------------------
(* handleExport: the CSV file *)

Quote == "\""
NewLine == "\n"

\* the keys of visibleColumns as the characters of the header
KeyText ==
    [name |-> <<"n", "a", "m", "e">>,
     email |-> <<"e", "m", "a", "i", "l">>,
     message |-> <<"m", "e", "s", "s", "a", "g", "e">>,
     submittedAt |-> <<"s", "u", "b", "m", "i", "t", "t", "e", "d", "A", "t">>,
     ipAddress |-> <<"i", "p", "A", "d", "d", "r", "e", "s", "s">>,
     location |-> <<"l", "o", "c", "a", "t", "i", "o", "n">>,
     deviceInfo |-> <<"d", "e", "v", "i", "c", "e", "I", "n", "f", "o">>,
     screenResolution |-> <<"s", "c", "r", "e", "e", "n", "R", "e", "s", "o", "l", "u", "t", "i",
                            "o", "n">>]

\* Object.entries(visibleColumns).filter(([_, visible]) => visible).map(([key]) => key)
VisibleKeys(cols) == SelectSeq(ColumnKeys, LAMBDA k : cols[k])

\* the rows of the current page instead of the filtered set
ExportDataOfPage(subs, cols, term) == PageOf(Filtered(subs, cols, term), 1)

\* const filteredData: the filter of handleExport, its own copy of the predicate
ExportData(subs, cols, term) ==
    SelectSeq(subs, LAMBDA r :
        \E i \in 1..Len(ColumnKeys) :
            /\ cols[ColumnKeys[i]]
            /\ Includes(ToLowerCase(FieldString(r, ColumnKeys[i])), ToLowerCase(term)))

\* value.replace(/"/g, '""')
RECURSIVE DoubleQuotes(_)
DoubleQuotes(value) ==
    IF value = <<>> THEN <<>>
    ELSE (IF Head(value) = Quote THEN <<Quote, Quote>> ELSE <<Head(value)>>)
         \o DoubleQuotes(Tail(value))

\* the string in quotes, the quotes inside left as they are
CsvValueUndoubled(r, key) ==
    IF key = "submittedAt" THEN DateToString(r.submittedAt)
    ELSE <<Quote>> \o r[key] \o <<Quote>>

\* one cell as .join(',') writes it: a string in quotes with its quotes
\* doubled, the Date of submittedAt by its toString()
CsvValue(r, key) ==
    IF key = "submittedAt" THEN DateToString(r.submittedAt)
    ELSE <<Quote>> \o DoubleQuotes(r[key]) \o <<Quote>>

\* the array of cells of one record
CsvCells(r, cols) ==
    LET keys == VisibleKeys(cols) IN [j \in 1..Len(keys) |-> CsvValue(r, keys[j])]

\* what handleExport computes: filteredData, the header and the rows before
\* and after .join(','), and csvContent
Export(subs, cols, term) ==
    LET data == ExportData(subs, cols, term)
        keys == VisibleKeys(cols)
        header == [j \in 1..Len(keys) |-> KeyText[keys[j]]]
        cells == [i \in 1..Len(data) |-> CsvCells(data[i], cols)]
        lines == <<Join(header, <<",">>)>>
                     \o [i \in 1..Len(data) |-> Join(cells[i], <<",">>)]
    IN [data |-> data,
        header |-> header,
        cells |-> cells,
        lines |-> lines,
        csvContent |-> Join(lines, <<NewLine>>)]

\* the same filter keeping track of the first selected id only
WithoutFirstSelected(subs, sel) == SelectSeq(subs, LAMBDA s : s.id # sel[1])
\* submissions.filter(s => !selectedItems.includes(s.id))
WithoutSelected(subs, sel) == SelectSeq(subs, LAMBDA s : s.id \notin Range(sel))

\* deleteDoc(doc(db, 'contacts', id)) succeeded
DocsWithout(ds, id) == SelectSeq(ds, LAMBDA d : d.id # id)

\* the id appended whether selected already or not
AppendItem(prev, id) == Append(prev, id)

\* prev.includes(id) ? prev.filter(itemId => itemId !== id) : [...prev, id]
ToggleItem(prev, id) ==
    IF id \in Range(prev) THEN SelectSeq(prev, LAMBDA x : x # id) ELSE Append(prev, id)

RemoveAt(s, i) == SubSeq(s, 1, i - 1) \o SubSeq(s, i + 1, Len(s))

\* window.confirm answered with Cancel: handleBulkDelete returns at once
Declined(sel, subs) ==
    [sel |-> sel, subs |-> subs, pending |-> {}, succeeded |-> {}, failed |-> {},
     state |-> "declined"]

\* what the catch of handleBulkDelete does to the in-memory view
ViewAfterRejection(subs, op) == subs

\* the dashboard after its first render: the useState initial values, the
\* stats effect has run on the empty set, fetchSubmissions is under way
Mounted(collections, engines, instants) ==
    /\ submissions = <<>>
    /\ loading = TRUE
    /\ error = Null
    /\ selectedItems = <<>>
    /\ currentPage = 1
    /\ visibleColumns = AllVisible
    /\ searchTerm = <<>>
    /\ sortConfig = [key |-> "submittedAt", direction |-> "desc"]
    /\ statsAt \in instants
    /\ stats = StatsOf(<<>>, statsAt)
    /\ engine \in engines
    /\ view = NullObj
    /\ exported = NullObj
    /\ docs \in collections
    /\ bulk = <<>>
    /\ lastDone = NullObj

LastNow == CHOOSE t \in Nows : \A u \in Nows : u <= t

AdminInit ==
    Mounted({ SubSeq(AllDocs, 1, n) : n \in 0..MaxDocs }, {"timsort"}, {LastNow})

\* the dashboard renders its table only when neither loading nor in error
TableShown == ~loading /\ error = Null

\* getDocs resolves: the whole mapped set is installed
FetchSubmissionsOk ==
    /\ loading
    /\ \E now \in Nows :
           /\ now >= statsAt
           /\ submissions' = Mapped(docs, now)
           /\ StatsEffectFrom(now)
    /\ loading' = FALSE
    /\ UNCHANGED <<error, selectedItems, docs, bulk, queryVars, renderVars>>
    /\ lastDone' = NullObj
    /\ UNCHANGED formVars

\* getDocs rejects
FetchSubmissionsFail ==
    /\ loading
    /\ error' = "Error fetching submissions"
    /\ loading' = FALSE
    /\ UNCHANGED <<submissions, selectedItems, docs, bulk, queryVars, statsVars,
                   renderVars>>
    /\ lastDone' = NullObj
    /\ UNCHANGED formVars

\* handleSelectItem on a displayed row
HandleSelectItem ==
    /\ TableShown
    /\ \E i \in 1..Len(PaginatedSubmissions) :
        selectedItems' = ToggleItem(selectedItems, PaginatedSubmissions[i].id)
    /\ UNCHANGED <<submissions, loading, error, docs, bulk, queryVars, statsVars,
                   renderVars>>
    /\ lastDone' = NullObj
    /\ UNCHANGED formVars

\* handleBulkDelete up to its await: the confirmation dialog, then one
\* deleteDoc per selected id. The handler keeps the selectedItems and the
\* submissions of the render it was created in.
BulkDelete(limit) ==
    /\ TableShown
    /\ Len(selectedItems) > 0
    /\ Len(bulk) < limit
    /\ \E confirmed \in BOOLEAN :
        IF confirmed
           THEN /\ bulk' = Append(bulk, [sel |-> selectedItems,
                                         subs |-> submissions,
                                         pending |-> 1..Len(selectedItems),
                                         succeeded |-> {},
                                         failed |-> {},
                                         state |-> "waiting"])
                /\ lastDone' = NullObj
           ELSE /\ UNCHANGED bulk
                /\ lastDone' = Declined(selectedItems, submissions)
    /\ UNCHANGED <<submissions, loading, error, selectedItems, docs, queryVars,
                   statsVars, renderVars>>
    /\ UNCHANGED formVars

HandleBulkDelete == BulkDelete(MaxBulk)

\* one deleteDoc settles. Promise.all rejects with the first rejection and
\* resolves with the last fulfilment; the continuation of handleBulkDelete
\* runs right after the settlement that decides it.
DeleteDocSettle ==
    \E i \in 1..Len(bulk) :
      \E k \in bulk[i].pending, ok \in BOOLEAN :
        LET op == bulk[i]
            left == op.pending \ {k}
            decided == IF op.state # "waiting" THEN op.state
                       ELSE IF ~ok THEN "rejected"
                       ELSE IF left = {} THEN "resolved"
                       ELSE "waiting"
            after == [op EXCEPT !.pending = left,
                                !.succeeded = IF ok THEN @ \cup {k} ELSE @,
                                !.failed = IF ok THEN @ ELSE @ \cup {k},
                                !.state = decided]
        IN
        /\ docs' = IF ok THEN DocsWithout(docs, op.sel[k]) ELSE docs
        /\ IF left = {}
              THEN /\ bulk' = RemoveAt(bulk, i)
                   /\ lastDone' = after
              ELSE /\ bulk' = [bulk EXCEPT ![i] = after]
                   /\ lastDone' = NullObj
        /\ IF op.state = "waiting" /\ decided = "resolved"
              THEN /\ submissions' = WithoutSelected(op.subs, op.sel)
                   /\ selectedItems' = <<>>
                   /\ StatsEffect
                   /\ UNCHANGED error
              ELSE IF op.state = "waiting" /\ decided = "rejected"
                      THEN /\ error' = "Error deleting submissions"
                           /\ submissions' = ViewAfterRejection(submissions, op)
                           /\ UNCHANGED <<selectedItems, statsVars>>
                      ELSE UNCHANGED <<submissions, selectedItems, error, statsVars>>
        /\ UNCHANGED <<loading, queryVars, renderVars>>
        /\ UNCHANGED formVars

\* setSearchTerm(e.target.value): what the operator types
SearchTerms == { <<>>, <<"B", "O">>, <<"z", "z">> }

SetSearchTerm ==
    /\ TableShown
    /\ \E term \in SearchTerms \ {searchTerm} : searchTerm' = term
    /\ UNCHANGED <<currentPage, visibleColumns, sortConfig>>
    /\ UNCHANGED <<submissions, loading, error, selectedItems, docs, bulk, statsVars,
                   renderVars>>
    /\ lastDone' = NullObj
    /\ UNCHANGED formVars

\* the columns whose checkbox the operator uses
ToggledColumns == {"name", "email"}

\* toggleColumn(column)
ToggleColumn ==
    /\ TableShown
    /\ \E column \in ToggledColumns :
        visibleColumns' = [visibleColumns EXCEPT ![column] = ~@]
    /\ UNCHANGED <<currentPage, searchTerm, sortConfig>>
    /\ UNCHANGED <<submissions, loading, error, selectedItems, docs, bulk, statsVars,
                   renderVars>>
    /\ lastDone' = NullObj
    /\ UNCHANGED formVars

\* a handleSort that looks at the previous direction only
SortConfigIgnoringKey(prev, key) ==
    [key |-> key, direction |-> IF prev.direction = "asc" THEN "desc" ELSE "asc"]

\* prev => ({key, direction: prev.key === key && prev.direction === 'asc' ? 'desc' : 'asc'})
NextSortConfig(prev, key) ==
    [key |-> key,
     direction |-> IF prev.key = key /\ prev.direction = "asc" THEN "desc" ELSE "asc"]

\* the headers the operator clicks
SortedColumns == {"name", "submittedAt"}

\* handleSort(key), from the header of a shown column
HandleSort ==
    /\ TableShown
    /\ \E key \in SortedColumns :
        /\ visibleColumns[key]
        /\ sortConfig' = NextSortConfig(sortConfig, key)
    /\ UNCHANGED <<currentPage, visibleColumns, searchTerm>>
    /\ UNCHANGED <<submissions, loading, error, selectedItems, docs, bulk, statsVars,
                   renderVars>>
    /\ lastDone' = NullObj
    /\ UNCHANGED formVars

\* Previous: setCurrentPage(prev => Math.max(prev - 1, 1)), disabled on page 1
PreviousPage ==
    /\ TableShown
    /\ currentPage # 1
    /\ currentPage' = Max(currentPage - 1, 1)
    /\ UNCHANGED <<visibleColumns, searchTerm, sortConfig>>
    /\ UNCHANGED <<submissions, loading, error, selectedItems, docs, bulk, statsVars,
                   renderVars>>
    /\ lastDone' = NullObj
    /\ UNCHANGED formVars

\* Next: setCurrentPage(prev => Math.min(prev + 1, totalPages)), disabled
\* when currentPage === totalPages
NextPage ==
    /\ TableShown
    /\ currentPage # TotalPages
    /\ currentPage' = Min(currentPage + 1, TotalPages)
    /\ UNCHANGED <<visibleColumns, searchTerm, sortConfig>>
    /\ UNCHANGED <<submissions, loading, error, selectedItems, docs, bulk, statsVars,
                   renderVars>>
    /\ lastDone' = NullObj
    /\ UNCHANGED formVars

Ids(recs) == [i \in 1..Len(recs) |-> recs[i].id]

\* handleSelectAll
SelectAllResult(sel, filtered) ==
    IF Len(sel) = Len(filtered) THEN <<>> ELSE Ids(filtered)

HandleSelectAll ==
    /\ TableShown
    /\ selectedItems' = SelectAllResult(selectedItems, FilteredSubmissions)
    /\ UNCHANGED <<submissions, loading, error, docs, bulk, queryVars, statsVars,
                   renderVars>>
    /\ lastDone' = NullObj
    /\ UNCHANGED formVars

AdminSpecInit == FormInit /\ AdminInit

AdminNext ==
    \/ FetchSubmissionsOk
    \/ FetchSubmissionsFail
    \/ HandleSelectItem
    \/ HandleBulkDelete
    \/ DeleteDocSettle

AdminSpec == AdminSpecInit /\ [][AdminNext]_vars

\* The same with select all, and a second bulk delete confirmed while the
\* deletes of the first are pending
HandleBulkDeleteOverlapping == BulkDelete(MaxOverlap)

OverlapNext ==
    \/ FetchSubmissionsOk
    \/ FetchSubmissionsFail
    \/ HandleSelectItem
    \/ HandleSelectAll
    \/ HandleBulkDeleteOverlapping
    \/ DeleteDocSettle

OverlapSpec == AdminSpecInit /\ [][OverlapNext]_vars

\* The dashboard with its query controls. The operator starts one bulk
\* delete at a time and touches no control while its deletes are pending
\* (OverlapSpec has the selection changes and the bulk deletes that overlap).
ViewSpecInit ==
    FormInit /\ Mounted({ SubSeq(AllDocs, 1, n) : n \in 0..MaxDocs }, {"timsort"}, Nows)

Quiet == bulk = <<>>

ViewNext ==
    \/ FetchSubmissionsOk
    \/ FetchSubmissionsFail
    \/ (Quiet /\ SetSearchTerm)
    \/ (Quiet /\ ToggleColumn)
    \/ (Quiet /\ HandleSort)
    \/ (Quiet /\ PreviousPage)
    \/ (Quiet /\ NextPage)
    \/ (Quiet /\ HandleSelectItem)
    \/ (Quiet /\ HandleSelectAll)
    \/ (Quiet /\ HandleBulkDelete)
    \/ DeleteDocSettle

ViewSpec == ViewSpecInit /\ [][ViewNext]_vars

-----------------------------------------------------------------------------
(* One render, from any state of the controls *)

IdNames == Upper \o Digits

\* a collection of n documents, newest first, an hour apart
LongCollection(n) ==
    [i \in 1..n |-> [id |-> IdNames[i],
                     data |-> [AllDocs[((i - 1) % Len(AllDocs)) + 1].data
                                  EXCEPT !.submittedAt = Stamp(9 * Day - i * 3600)]]]

ShortCollections == { SubSeq(AllDocs, 1, n) : n \in 0..MaxShown }
LongCollections ==
    { LongCollection(itemsPerPage * k + r) : k \in 1..MaxPages, r \in {0, 1} }

QueryTerms == SearchTerms \cup { <<"N">> }
Directions == {"asc", "desc"}
InitialSort == [key |-> "submittedAt", direction |-> "desc"]
EmailHidden == [AllVisible EXCEPT !["email"] = FALSE]

\* the controls as a sequence of toggles, searches, sorts and page clicks can
\* leave them, over a loaded collection: every mapping of the columns with
\* every term; every sort of every column in both implementations; every
\* page of the long collections
QueryInit ==
    /\ FormInit
    /\ loading = FALSE
    /\ error = Null
    /\ selectedItems = <<>>
    /\ bulk = <<>>
    /\ lastDone = NullObj
    /\ statsAt = LastNow
    /\ view = NullObj
    /\ exported = NullObj
    /\ \/ /\ docs \in ShortCollections
          /\ visibleColumns \in [Columns -> BOOLEAN]
          /\ searchTerm \in QueryTerms
          /\ sortConfig = InitialSort
          /\ engine = "timsort"
          /\ currentPage = 1
       \/ /\ docs \in ShortCollections
          /\ visibleColumns \in {AllVisible, EmailHidden}
          /\ searchTerm \in { <<>>, <<"N">> }
          /\ sortConfig \in [key : Columns, direction : Directions]
          /\ engine \in Engines
          /\ currentPage = 1
       \/ /\ docs \in LongCollections
          /\ visibleColumns \in {AllVisible, EmailHidden}
          /\ searchTerm \in { <<>>, <<"B", "O">>, <<"z", "z">> }
          /\ sortConfig \in [key : {"name", "submittedAt"}, direction : Directions]
          /\ engine \in Engines
          /\ currentPage \in 0..(MaxPages + 2)
    /\ submissions = Mapped(docs, statsAt)
    /\ stats = StatsOf(submissions, statsAt)

\* the body of the component runs: the derived values of this render
Render ==
    /\ TableShown
    /\ view = NullObj
    /\ view' = [filtered |-> FilteredSubmissions,
                totalPages |-> TotalPages,
                paginated |-> PaginatedSubmissions]
    /\ UNCHANGED <<submissions, loading, error, selectedItems, docs, bulk, lastDone,
                   queryVars, statsVars, engine, exported>>
    /\ UNCHANGED formVars

\* handleExport, from the button of the rendered table; isExporting is set
\* and cleared within the one synchronous run
HandleExport ==
    /\ TableShown
    /\ view # NullObj
    /\ exported = NullObj
    /\ exported' = Export(submissions, visibleColumns, searchTerm)
    /\ UNCHANGED <<submissions, loading, error, selectedItems, docs, bulk, lastDone,
                   queryVars, statsVars, engine, view>>
    /\ UNCHANGED formVars

QueryNext == Render \/ HandleExport

QuerySpec == QueryInit /\ [][QueryNext]_vars

-----------------------------------------------------------------------------
(* The load alone, over documents of every shape the mapping distinguishes *)

FullVisitorData == AllDocs[2].data.visitorData

\* the value of a document for each way of storing submittedAt and each
\* degree of absence of visitorData, of location and of its parts
StoredShapes ==
    << [name |-> <<"C", "y">>, email |-> <<"c", "y", "@", "x", ".", "i", "o">>, message |-> <<"H", "i">>,
        visitorData |-> NullObj,
        submittedAt |-> [kind |-> "missing"]],
       [name |-> <<"B", "o", "b">>, email |-> <<"b", "o", "b", "@", "x", ".", "i", "o">>, message |-> <<>>,
        visitorData |-> FullVisitorData,
        submittedAt |-> [kind |-> "string",
                         text |-> <<"2", "0", "2", "6", "-", "1", "1", "-", "0", "2", "T", "1", "8", ":", "3", "0", ":", "0", "0", ".", "0", "0", "0", "Z">>]],
       [name |-> <<"A", "n", "n">>, email |-> <<"a", "n", "n", "@", "x", ".", "i", "o">>, message |-> <<"B", "o", "o">>,
        visitorData |-> [ip |-> <<"1", "0", ".", "0", ".", "0", ".", "9">>, location |-> NullObj,
                         deviceDetails |-> [platform |-> <<"L", "i", "n", "u", "x">>, screenResolution |-> <<>>]],
        submittedAt |-> [kind |-> "number", value |-> Origin + Day]],
       [name |-> <<>>, email |-> <<"n", "@", "x", ".", "i", "o">>, message |-> <<"y", "o">>,
        visitorData |-> [ip |-> <<>>,
                         location |-> [latitude |-> NullNum, longitude |-> Num(80),
                                       city |-> <<"K", "a", "n", "d", "y">>, region |-> <<>>, country |-> <<>>],
                         deviceDetails |-> NullObj],
        submittedAt |-> [kind |-> "string", text |-> <<"s", "o", "o", "n">>]],
       [name |-> <<"D", "i">>, email |-> <<"d", "i", "@", "x", ".", "i", "o">>, message |-> <<>>,
        visitorData |-> [ip |-> <<"1", "0", ".", "0", ".", "0", ".", "7">>,
                         location |-> [latitude |-> Num(0), longitude |-> Num(80),
                                       city |-> <<>>, region |-> <<>>, country |-> <<>>],
                         deviceDetails |-> [platform |-> <<>>, screenResolution |-> <<"8", "0", "0", "x", "6", "0", "0">>]],
        submittedAt |-> [kind |-> "number", value |-> 0]],
       [name |-> <<"E", "v", "e">>, email |-> <<"e", "v", "e", "@", "x", ".", "i", "o">>, message |-> <<"H", "i">>,
        visitorData |-> [ip |-> <<>>,
                         location |-> [latitude |-> Num(7), longitude |-> NullNum,
                                       city |-> <<>>, region |-> <<"W", "e", "s", "t", "e", "r", "n">>, country |-> <<"L", "K">>],
                         deviceDetails |-> NullObj],
        submittedAt |-> [kind |-> "boolean", flag |-> TRUE]],
       [name |-> <<"F", "l", "o">>, email |-> <<"f", "l", "o", "@", "x", ".", "i", "o">>, message |-> <<"H", "i">>,
        visitorData |-> NullObj,
        submittedAt |-> [kind |-> "date", time |-> 0 - 1]],
       [name |-> <<"G", "u", "s">>, email |-> <<"g", "u", "s", "@", "x", ".", "i", "o">>, message |-> <<"y", "o">>,
        visitorData |-> FullVisitorData,
        submittedAt |-> Stamp(9 * Day)] >>

\* the results of the query: up to MaxLoad documents, each of any shape
LoadCollections ==
    UNION { { [i \in 1..n |-> [id |-> IdNames[i], data |-> StoredShapes[shape[i]]]] :
                shape \in [1..n -> 1..Len(StoredShapes)] } : n \in 0..MaxLoad }

LoadInit == FormInit /\ Mounted(LoadCollections, {"timsort"}, Nows)

LoadNext == FetchSubmissionsOk \/ FetchSubmissionsFail

LoadSpec == LoadInit /\ [][LoadNext]_vars

-----------------------------------------------------------------------------
(* Reading the observation of the current submission *)

Idx(e) == { i \in 1..Len(log) : log[i].ev = e }
Has(e) == Idx(e) # {}
Attempts == Cardinality(Idx("attempt"))
FailLog == SelectSeq(log, LAMBDA x : x.ev = "addDocFail")
FailCodes == [i \in 1..Len(FailLog) |-> FailLog[i].code]
WaitLog == SelectSeq(log, LAMBDA x : x.ev = "wait")
Waits == [i \in 1..Len(WaitLog) |-> WaitLog[i].n]
\* the store calls, their outcomes and the timers, in order
RetryLog == SelectSeq(log, LAMBDA x : x.ev \in {"attempt", "addDocFail", "addDocOk", "wait"})
RetryKinds == [i \in 1..Len(RetryLog) |-> <<RetryLog[i].ev, RetryLog[i].n>>]
StatusSets(v) == { i \in Idx("setSubmitStatus") : log[i].code = v }

\* a submission was started and its handler has run to the end
Done == pc = "idle" /\ subCount > 0
Ended == Done /\ ~isSubmitting

-----------------------------------------------------------------------------
(* Claims about the Submission Writer *)

\* C1: once an append has failed with permission-denied or unauthenticated,
\* on whichever attempt, the submission makes no further append and no
\* backoff wait and has ended with the error status; such a failure on the
\* first attempt leaves exactly one attempt.
C1_TerminalNotRetried ==
    \A i \in Idx("addDocFail") :
        log[i].code \in TerminalCodes =>
            /\ \A j \in (i + 1)..Len(log) : log[j].ev \notin {"attempt", "wait", "addDocOk", "addDocFail"}
            /\ Ended
            /\ submitStatus = "error"
            /\ Attempts = log[i].n
            /\ (log[i].n = 1 => Attempts = 1 /\ Waits = <<>>)

C1_Witness ==
    /\ Ended
    /\ submitStatus = "error"
    /\ FailCodes = <<"permission-denied">>
    /\ Attempts = 1

\* C2 as stated: three transient failures in a row give exactly 3 attempts,
\* delays of 1s/2s/4s between them, then the final error.
C2_Original ==
    (Done /\ Len(FailCodes) = 3 /\ \A i \in 1..3 : FailCodes[i] \in TransientCodes) =>
        /\ Attempts = 3
        /\ Waits \in { <<1000, 2000>>, <<1000, 2000, 4000>> }
        /\ submitStatus = "error"

\* C2 as amended: three transient failures in a row give exactly 3 attempts
\* with a delay of 2s between the first and the second and of 4s between the
\* second and the third, no wait after the third, then the final error.
C2_ThreeTransientFailures ==
    (Done /\ Len(FailCodes) = 3 /\ \A i \in 1..3 : FailCodes[i] \in TransientCodes) =>
        /\ Attempts = 3
        /\ Waits = <<2000, 4000>>
        /\ RetryKinds = << <<"attempt", 1>>, <<"addDocFail", 1>>, <<"wait", 2000>>,
                           <<"attempt", 2>>, <<"addDocFail", 2>>, <<"wait", 4000>>,
                           <<"attempt", 3>>, <<"addDocFail", 3>> >>
        /\ submitStatus = "error"
        /\ ~isSubmitting
        /\ caught = lastError

C2_Witness ==
    /\ Done
    /\ FailCodes = <<"unavailable", "unavailable", "unavailable">>
    /\ submitStatus = "error"

\* the parts of C3 that do not depend on which error object is surfaced:
\* at most 3 attempts; a non-terminal failure of attempt n < 3 is followed by
\* the backoff wait and then attempt n + 1; a failed third attempt ends the
\* submission with the error status
C3_Budget ==
    /\ Attempts <= 3
    /\ \A i \in Idx("addDocFail") :
          /\ log[i].n <= 3
          /\ (log[i].code \in TransientCodes /\ log[i].n < 3) =>
                /\ i < Len(log) /\ log[i + 1].ev = "wait"
                /\ \/ (pc = "backoff" /\ i + 1 = Len(log))
                   \/ (i + 2 <= Len(log) /\ log[i + 2] = Ev("attempt", log[i].n + 1, ""))
          /\ log[i].n = 3 =>
                /\ Ended
                /\ submitStatus = "error"
                /\ lastError = StoreError(log[i].code, 3)

\* C3 as stated: ... and when the third attempt fails, the error the
\* submission ends with is the error of that last attempt.
C3_Original ==
    /\ C3_Budget
    /\ \A i \in Idx("addDocFail") : log[i].n = 3 => caught = StoreError(log[i].code, 3)

\* C3 as amended: ... and when the third attempt fails with a non-terminal
\* error the submission ends with the error status carrying the error of
\* that last attempt; when it fails with permission-denied or unauthenticated
\* it ends with the error status carrying the replacement error raised for
\* that code.
C3_AttemptBudget ==
    /\ C3_Budget
    /\ \A i \in Idx("addDocFail") :
          log[i].n = 3 =>
              /\ log[i].code \in TransientCodes => caught = StoreError(log[i].code, 3)
              /\ log[i].code \in TerminalCodes =>
                    /\ caught.code = Undefined
                    /\ caught.message # "firestore"

C3_Witness ==
    /\ Ended
    /\ Attempts = 3
    /\ FailCodes = <<"unavailable", "unavailable", "unavailable">>
    /\ caught = StoreError("unavailable", 3)

\* C4: when an append succeeds (attempt 1, 2 or 3) the form state is reset to
\* empty name/email/message in that step, the success status is set exactly
\* once in the submission, no append follows, and the error status is not set
\* in the submission.
C4_SuccessState ==
    \A i \in Idx("addDocOk") :
        /\ Cardinality(StatusSets("success")) = 1
        /\ StatusSets("error") = {}
        /\ Cardinality(Idx("addDocOk")) = 1
        /\ \A j \in (i + 1)..Len(log) : log[j].ev \notin {"attempt", "addDocFail", "addDocOk", "wait"}
        /\ Ended
        /\ submitStatus = "success"
        /\ Len(store) > 0 /\ store[Len(store)].data = contactData

C4_FormReset ==
    (pc = "addDoc" /\ submitStatus' = "success") => formData' = EmptyForm

C4_Success == [](C4_SuccessState) /\ [][C4_FormReset]_vars

C4_Witness ==
    /\ Ended
    /\ submitStatus = "success"
    /\ \E i \in Idx("addDocOk") : log[i].n = 3
    /\ formData = EmptyForm
    /\ subForm # EmptyForm

\* C5: whatever fails among the IP lookup, the device geolocation and the
\* IP-geo lookup, the submission reaches the store append, and the status the
\* submitter sees is a function of the append outcomes alone: none while no
\* append has settled for good, success when an append succeeded, error when
\* an append failed terminally or for the third time.
C5_StatusOfAppends ==
    IF subCount = 0 THEN Null
    ELSE IF Has("addDocOk") THEN "success"
    ELSE IF \E i \in Idx("addDocFail") : log[i].code \in TerminalCodes \/ log[i].n = 3
         THEN "error"
    ELSE Null

C5_EnrichmentAbsorbed ==
    /\ submitStatus = C5_StatusOfAppends
    /\ (Has("ipFail") \/ Has("deviceLocationFail") \/ Has("ipGeoFail")) =>
          \/ pc \in {"deviceLocation", "ipGeo"}
          \/ Attempts >= 1
    /\ Done => Attempts >= 1

C5_Witness ==
    /\ Ended
    /\ Has("deviceLocationFail")
    /\ Has("ipGeoFail")
    /\ submitStatus = "success"

-----------------------------------------------------------------------------
(* Claims about the Telemetry Collector and the Enrichment Aggregator *)

\* getVisitorData has returned and handleSubmit has prepared contactData
Enriched == contactData # NullObj

GeoFields == {"city", "region", "country", "postal", "timezone"}

\* C6 as stated: when the IP lookup fails, only the IP bundle is lost: the
\* IP-geo lookup is skipped, and the submission's visitorData is still
\* produced, with ip absent and with the device geolocation and the device
\* metadata gathered into it.
C6_Original ==
    (Has("ipFail") /\ Enriched) =>
        /\ ~Has("ipGeoRequest")
        /\ Has("deviceLocationRequest")
        /\ contactData.visitorData # NullObj
        /\ contactData.visitorData.ip \in {Undefined, Null}
        /\ contactData.visitorData.deviceDetails = DeviceDetails

\* C7: when the IP-geo lookup fails after a successful IP lookup, the record
\* handed to the store, and the record written, has visitorData null as a
\* whole: nothing of the ip, the coordinates or the device metadata gathered
\* before is in it.
C7_IpGeoFailureDropsAll ==
    (Has("ipOk") /\ Has("ipGeoFail")) =>
        /\ Enriched
        /\ contactData.visitorData = NullObj
        /\ Attempts >= 1
        /\ Has("addDocOk") => store[Len(store)].data.visitorData = NullObj

C7_Witness ==
    /\ Has("ipOk")
    /\ Has("deviceLocationOk")
    /\ deviceLocation \in Positions
    /\ Has("ipGeoFail")
    /\ Has("addDocOk")
    /\ store[Len(store)].data.visitorData = NullObj

\* C8: when the device geolocation is refused, times out or is unsupported,
\* enrichment goes on to the IP-geo lookup, and when that lookup succeeds
\* visitorData is produced with latitude, longitude and accuracy null, with
\* the ip, with every IP-derived geo field filled in and with the device
\* metadata.
C8_DeviceLocationTolerated ==
    Has("deviceLocationFail") =>
        /\ Has("ipOk")
        /\ Has("ipGeoRequest")
        /\ deviceLocation = DeviceLocationFallback
        /\ Has("ipGeoOk") =>
              /\ Enriched
              /\ contactData.visitorData # NullObj
              /\ LET vd == contactData.visitorData IN
                  /\ vd.location.latitude = NullNum
                  /\ vd.location.longitude = NullNum
                  /\ vd.location.accuracy = NullNum
                  /\ vd.ip \in IpValues
                  /\ \A f \in GeoFields : vd.location[f] \notin {Undefined, Null, ""}
                  /\ \E loc \in LocationDataSet : \A f \in GeoFields :
                        vd.location[f] = IF loc[f] = Undefined THEN "Unknown" ELSE loc[f]
                  /\ vd.deviceDetails = DeviceDetails

C8_Witness ==
    /\ \E i \in Idx("deviceLocationFail") : log[i].code = "denied"
    /\ Has("ipGeoOk")
    /\ Has("addDocOk")
    /\ store[Len(store)].data.visitorData # NullObj
    /\ store[Len(store)].data.visitorData.location.latitude = NullNum
    /\ store[Len(store)].data.visitorData.location.city = "Colombo"

\* the events by which a lookup settles
Settles(req) ==
    CASE req = "ipRequest" -> {"ipOk", "ipFail"}
      [] req = "deviceLocationRequest" -> {"deviceLocationOk", "deviceLocationFail"}
      [] req = "ipGeoRequest" -> {"ipGeoOk", "ipGeoFail"}

\* C9: the IP-geo lookup is requested only after the IP lookup has completed
\* successfully, with the ip it returned, never while it is pending and never
\* after it failed; and every store append is issued only after enrichment
\* has finished: each lookup that was requested has settled and contactData
\* (with a visitorData value or null) is prepared.
C9_Ordering ==
    /\ \A i \in Idx("ipGeoRequest") :
          /\ \E j \in 1..(i - 1) : log[j] = Ev("ipOk", 0, log[i].code)
          /\ log[i].code \in IpValues
    /\ Has("ipFail") => ~Has("ipGeoRequest")
    /\ pc = "ipLookup" => ~Has("ipGeoRequest")
    /\ \A i \in Idx("attempt") :
          /\ Enriched
          /\ \A req \in {"ipRequest", "deviceLocationRequest", "ipGeoRequest"} :
                \A r \in Idx(req) : r < i /\ \E j \in (r + 1)..(i - 1) : log[j].ev \in Settles(req)
    /\ pc \in {"ipLookup", "deviceLocation", "ipGeo"} => (~Enriched /\ Attempts = 0)

C9_Witness ==
    /\ Has("ipGeoRequest")
    /\ Has("ipGeoOk")
    /\ pc = "addDoc"
    /\ Attempts = 1

-----------------------------------------------------------------------------
(* Claims about the bulk delete *)

ViewIds == { submissions[i].id : i \in 1..Len(submissions) }

\* C10 as stated: after a bulk delete of {A, B} in which the store delete of
\* A succeeded and that of B failed, A is gone from the in-memory view, B is
\* still in it, an error is reported and the selection is not cleared.
C10_Original ==
    (/\ lastDone # NullObj
     /\ Len(lastDone.sel) = 2
     /\ lastDone.succeeded = {1}
     /\ lastDone.failed = {2}) =>
        /\ lastDone.sel[1] \notin ViewIds
        /\ lastDone.sel[2] \in ViewIds
        /\ error # Null
        /\ selectedItems # <<>>

\* C11 as stated: a bulk delete reports its outcome (the success path or the
\* error) only after every store delete it issued has settled, so a bulk
\* delete that still has a store delete pending has reported nothing yet.
C11_Original ==
    \A i \in 1..Len(bulk) :
        bulk[i].pending # {} => bulk[i].state = "waiting"

\* the records of view s at the positions whose id is not in ids, in order
Keep(s, ids) ==
    LET F[i \in 0..Len(s)] ==
            IF i = 0 THEN <<>>
            ELSE IF s[i].id \in ids THEN F[i - 1] ELSE Append(F[i - 1], s[i])
    IN F[Len(s)]

\* C12, success: when the last store delete of a confirmed bulk delete has
\* succeeded and all the others did, the in-memory view is the view the bulk
\* delete was confirmed on without the records whose id was selected (same
\* records, same order) and the selection is empty.
C12_AllSucceeded ==
    (lastDone # NullObj /\ lastDone.state = "resolved") =>
        /\ submissions = Keep(lastDone.subs, Range(lastDone.sel))
        /\ selectedItems = <<>>

\* C12, decline: a step in which the operator declines the confirmation
\* issues no store delete and changes neither the store, the view nor the
\* selection.
C12_Declined ==
    (lastDone' # NullObj /\ lastDone'.state = "declined") =>
        UNCHANGED <<bulk, docs, submissions, selectedItems, error>>

\* C12: the frame of a bulk delete, on full success and on decline
C12_BulkDeleteFrame == [](C12_AllSucceeded) /\ [][C12_Declined]_vars

\* a bulk delete of one of two records has fully succeeded
C12_Witness ==
    /\ lastDone # NullObj
    /\ lastDone.state = "resolved"
    /\ Len(lastDone.subs) = 2
    /\ Len(submissions) = 1

-----------------------------------------------------------------------------
(* Claims about filter, sort and pagination *)

Rendered == view # NullObj
IdsOf(recs) == { recs[i].id : i \in 1..Len(recs) }

\* a and b are the same character up to case
CasePairs ==
    { <<Upper[i], Lower[i]>> : i \in 1..Len(Upper) }
        \cup { <<Lower[i], Upper[i]>> : i \in 1..Len(Upper) }
SameLetter(a, b) == a = b \/ <<a, b>> \in CasePairs

\* term occurs in str as a case-insensitive substring
ContainsIgnoringCase(str, term) ==
    \E o \in 0..(Len(str) - Len(term)) :
        \A j \in 1..Len(term) : SameLetter(str[o + j], term[j])

\* C13: a record is in the filtered view if and only if at least one column
\* whose visibility flag is true has a field value whose string representation
\* contains the search term as a case-insensitive substring; hidden columns
\* never cause a match.
C13_FilterPredicate ==
    Rendered =>
        \A i \in 1..Len(submissions) :
            (submissions[i].id \in IdsOf(view.filtered))
                <=> (\E k \in Columns :
                        /\ visibleColumns[k]
                        /\ ContainsIgnoringCase(FieldString(submissions[i], k),
                                                searchTerm))

\* a render in which the term occurs in a hidden column of a record that is
\* left out, while another record is kept
C13_Witness ==
    /\ Rendered
    /\ searchTerm = <<"B", "O">>
    /\ Len(view.filtered) > 0
    /\ \E i \in 1..Len(submissions) :
        /\ submissions[i].id \notin IdsOf(view.filtered)
        /\ \E k \in Columns :
            /\ ~visibleColumns[k]
            /\ ContainsIgnoringCase(FieldString(submissions[i], k), searchTerm)

\* C14 as stated: with an empty search term the filter returns the full
\* record set, unchanged in order, for every record set and every mapping of
\* the visible columns, the one with every column off included.
C14_Original ==
    (Rendered /\ searchTerm = <<>>) =>
        /\ Filtered(submissions, visibleColumns, searchTerm) = submissions
        /\ IdsOf(view.filtered) = IdsOf(submissions)

\* the search term occurs in no field of a visible column of any record
NothingMatches ==
    \A i \in 1..Len(submissions) :
        \A k \in Columns :
            visibleColumns[k] =>
                ~ContainsIgnoringCase(FieldString(submissions[i], k), searchTerm)

\* C16: totalPages is the ceiling of (filtered count / 10); a search term that
\* matches no field of a visible column gives an empty filtered set, zero
\* pages, an empty page and no error; and on a page p in [1, totalPages] the
\* displayed page is exactly the filtered-and-sorted records at positions
\* 10(p-1)+1 .. min(10p, filtered count).
C16_Pagination ==
    Rendered =>
        LET n == Len(view.filtered)
            p == currentPage
        IN /\ view.totalPages * itemsPerPage >= n
           /\ (view.totalPages - 1) * itemsPerPage < n
           /\ NothingMatches =>
                 /\ view.filtered = <<>>
                 /\ view.totalPages = 0
                 /\ view.paginated = <<>>
                 /\ error = Null
           /\ p \in 1..view.totalPages =>
                 /\ Len(view.paginated) = Min(itemsPerPage * p, n) - itemsPerPage * (p - 1)
                 /\ \A j \in 1..Len(view.paginated) :
                       view.paginated[j] = view.filtered[itemsPerPage * (p - 1) + j]

\* the second page of eleven filtered records holds the eleventh alone
C16_Witness ==
    /\ Rendered
    /\ Len(view.filtered) = itemsPerPage + 1
    /\ currentPage = 2
    /\ view.totalPages = 2
    /\ Len(view.paginated) = 1
    /\ view.paginated[1] = view.filtered[itemsPerPage + 1]

\* the position of the record with this id in a sequence of records
PositionOf(recs, id) == CHOOSE i \in 1..Len(recs) : recs[i].id = id

\* C18 as stated: whenever at least one of two compared records has a missing
\* or empty value for the sort key, the pair compares as equal in both
\* directions, and the pair keeps its relative order from the filtered input
\* in the sorted output.
C18_Original ==
    Rendered =>
        LET input == Filtered(submissions, visibleColumns, searchTerm)
        IN \A i \in 1..Len(input) :
            \A j \in (i + 1)..Len(input) :
                (~FieldTruthy(input[i], sortConfig.key)
                    \/ ~FieldTruthy(input[j], sortConfig.key)) =>
                    /\ \A d \in Directions :
                          LET cfg == [key |-> sortConfig.key, direction |-> d]
                          IN /\ Compare(input[i], input[j], cfg) = 0
                             /\ Compare(input[j], input[i], cfg) = 0
                    /\ PositionOf(view.filtered, input[i].id)
                          < PositionOf(view.filtered, input[j].id)

-----------------------------------------------------------------------------
(* Claims about the controls of the dashboard *)

\* C15 as stated: after any sequence of admin operations the current page is
\* within [1, totalPages], or is 1 when there are no pages.
C15_Original ==
    IF TotalPages = 0 THEN currentPage = 1 ELSE currentPage \in 1..TotalPages

\* the opposite direction
Flipped(direction) == IF direction = "asc" THEN "desc" ELSE "asc"

\* one click on a column header
C17_Step ==
    sortConfig' # sortConfig =>
        IF sortConfig'.key = sortConfig.key
           THEN sortConfig'.direction = Flipped(sortConfig.direction)
           ELSE sortConfig'.direction = "asc"

\* C17: handleSort on the column that is already the sort key flips the
\* direction (also from the initial submittedAt/descending), and on another
\* column sets the direction to ascending whatever it was before.
C17_HandleSort == [][C17_Step]_vars

\* the name header was clicked twice: ascending first, then flipped
C17_Witness ==
    /\ TableShown
    /\ sortConfig = [key |-> "name", direction |-> "desc"]

\* every row of the filtered set is selected
AllFilteredSelected == IdsOf(FilteredSubmissions) \subseteq Range(selectedItems)

\* one step of the dashboard, as C19 describes it
C19_Step ==
    /\ (HandleSelectAll /\ ~AllFilteredSelected) =>
          /\ Range(selectedItems') = IdsOf(FilteredSubmissions)
          /\ Len(selectedItems') = Len(FilteredSubmissions)
    /\ (searchTerm' # searchTerm \/ sortConfig' # sortConfig
            \/ currentPage' # currentPage) =>
          selectedItems' = selectedItems

\* C19 as stated: selecting "all" when not every currently filtered row is
\* selected sets the selection to exactly the ids of the currently filtered
\* rows, whatever the previous selection was; and a change of the search
\* term, of the sort key or direction or of the page leaves the selection
\* unchanged.
C19_Original == [][C19_Step]_vars

-----------------------------------------------------------------------------
(* Claims about the stats *)

\* local midnight of the day of instant t; the time scale starts at local
\* midnight of the first day of the current month
Midnight(t) == Day * (t \div Day)
FirstOfMonth == 0

\* the records of the full, unfiltered set submitted at or after instant t
Since(t) == { i \in 1..Len(submissions) : ~(submissions[i].submittedAt < t) }

\* the stats are those of the full record set at the last recomputation
C20_Computed ==
    /\ stats.total = Len(submissions)
    /\ stats.today = Cardinality(Since(Midnight(statsAt)))
    /\ stats.thisWeek = Cardinality(Since(Midnight(statsAt) - 7 * Day))
    /\ stats.thisMonth = Cardinality(Since(FirstOfMonth))

\* a change of the search term, the sort or the page keeps the stats
C20_QueryKeeps ==
    (searchTerm' # searchTerm \/ sortConfig' # sortConfig
        \/ currentPage' # currentPage) => stats' = stats

\* C20: after the recomputation triggered by a change of the record set
\* (load, bulk delete) the stats are computed over the full unfiltered set:
\* total is the number of records, today counts those submitted at or after
\* local midnight today, thisWeek at or after that midnight minus 7 days,
\* thisMonth at or after midnight of the first day of the month, boundaries
\* included; search term, sort and page changes never change the stats.
C20_Stats == [](C20_Computed) /\ [][C20_QueryKeeps]_vars

\* a record submitted at exactly local midnight today is counted in today,
\* thisWeek and thisMonth, while a search hides every record
C20_Witness ==
    /\ TableShown
    /\ Len(submissions) = 1
    /\ submissions[1].submittedAt = Midnight(statsAt)
    /\ stats = [total |-> 1, today |-> 1, thisWeek |-> 1, thisMonth |-> 1]
    /\ FilteredSubmissions = <<>>

-----------------------------------------------------------------------------
(* Claims about the log and the timers of the retry loop *)

IsSettle(x) == x.ev \in {"addDocFail", "addDocOk"}

\* C27: every append attempt is preceded by a log event with its number, 1,
\* 2 or 3; every failed attempt writes a log event with the number of the
\* attempt that failed and the error, a successful one a success event; the
\* number of a failure event is that of the attempt event before it
C27_AttemptLog ==
    /\ pc = "addDoc" => (RetryLog # <<>> /\ RetryLog[Len(RetryLog)].ev = "attempt")
    /\ \A i \in 1..Len(RetryLog) :
           LET x == RetryLog[i]
           IN /\ x.ev = "attempt" =>
                     /\ x.n = Cardinality({ j \in 1..i : RetryLog[j].ev = "attempt" })
                     /\ x.n \in 1..3
                     /\ i < Len(RetryLog) => IsSettle(RetryLog[i + 1])
                     /\ i = Len(RetryLog) => pc = "addDoc"
              /\ IsSettle(x) => (i > 1 /\ RetryLog[i - 1].ev = "attempt")
              /\ x.ev = "addDocFail" =>
                     /\ x.n = RetryLog[i - 1].n
                     /\ x.code \in StoreCodes
    /\ Has("addDocOk") <=>
           (Len(store) > 0 /\ store[Len(store)].data.submittedAt = Now)

C27_Witness ==
    RetryKinds = << <<"attempt", 1>>, <<"addDocFail", 1>>, <<"wait", 2000>>,
                    <<"attempt", 2>>, <<"addDocFail", 2>>, <<"wait", 4000>>,
                    <<"attempt", 3>>, <<"addDocOk", 3>> >>

\* C28: after the k-th failed non-terminal attempt, k < 3, the writer waits
\* 2^k seconds and then starts attempt k + 1; the waits strictly increase;
\* there is no wait after the third failed attempt nor after a terminal one
C28_Backoff ==
    /\ \A i \in 1..Len(RetryLog) :
           LET x == RetryLog[i]
               last == i = Len(RetryLog)
           IN /\ x.ev = "addDocFail" =>
                     IF x.n < 3 /\ x.code \notin TerminalCodes
                        THEN /\ ~last
                             /\ RetryLog[i + 1].ev = "wait"
                             /\ RetryLog[i + 1].n = (2 ^ x.n) * 1000
                        ELSE last /\ pc = "idle" /\ timer = 0
              /\ x.ev = "wait" =>
                     /\ i > 1
                     /\ RetryLog[i - 1].ev = "addDocFail"
                     /\ IF last THEN pc = "backoff" /\ timer = x.n
                                ELSE RetryLog[i + 1] = Ev("attempt", RetryLog[i - 1].n + 1, "")
    /\ \A j \in 1..(Len(Waits) - 1) : Waits[j] < Waits[j + 1]
    /\ pc = "backoff" <=> (RetryLog # <<>> /\ RetryLog[Len(RetryLog)].ev = "wait")

\* two waits, of two and of four seconds, and none after the third failure
C28_Witness ==
    /\ Ended
    /\ Waits = <<2000, 4000>>
    /\ Len(FailLog) = 3
    /\ log[Len(log)].ev # "wait"

Running == pc # "idle"
Terminated == ~Running /\ ~isSubmitting /\ submitStatus \in {"success", "error"}

\* C29: when every external call and every timer settles, a started
\* submission terminates with isSubmitting false and the status success or
\* error; until then isSubmitting is true and the status is null
C29_Termination ==
    /\ [](Running => (isSubmitting /\ submitStatus = Null))
    /\ [](Running => <>Terminated)
    /\ [][(Running /\ ~Running') => Terminated']_vars

\* a submission that went through the two waits and ended in error
C29_Witness ==
    /\ Terminated
    /\ subCount > 0
    /\ submitStatus = "error"
    /\ Waits = <<2000, 4000>>
    /\ log[Len(log)] = Ev("setIsSubmitting", 0, "false")

-----------------------------------------------------------------------------
(* Claims about the export *)

Exported == exported # NullObj

\* the k-th smallest of a set of positions
Nth(positions, k) ==
    CHOOSE e \in positions : Cardinality({ d \in positions : d < e }) = k - 1

\* the pieces of a text between the separators at the given positions
Pieces(text, seps) ==
    LET ends == seps \cup { Len(text) + 1 }
        EndOf(k) == Nth(ends, k)
        StartOf(k) == IF k = 1 THEN 1 ELSE EndOf(k - 1) + 1
    IN [k \in 1..Cardinality(ends) |-> SubSeq(text, StartOf(k), EndOf(k) - 1)]

\* the lines of a text none of whose values holds a line break
ReadLines(text) == Pieces(text, { i \in 1..Len(text) : text[i] = NewLine })

QuotesUpTo(text, i) == Cardinality({ j \in 1..i : text[j] = Quote })

\* a value of CSV read back: as it stands when not quoted, else without the
\* enclosing quotes and with every "" read as "
ReadCsvValue(cell) ==
    IF cell = <<>> \/ Head(cell) # Quote THEN cell
    ELSE LET inner == SubSeq(cell, 2, Len(cell) - 1)
             kept == { i \in 1..Len(inner) :
                          inner[i] = Quote => QuotesUpTo(inner, i) % 2 = 1 }
         IN [k \in 1..Cardinality(kept) |-> inner[Nth(kept, k)]]

\* a line of CSV read back: the values between the commas outside quotes
ReadCsvLine(line) ==
    LET values == Pieces(line, { i \in 1..Len(line) :
                                    line[i] = "," /\ QuotesUpTo(line, i) % 2 = 0 })
    IN [k \in 1..Len(values) |-> ReadCsvValue(values[k])]

ShownKeys == SelectSeq(ColumnKeys, LAMBDA k : visibleColumns[k])

\* C21: the records written by the export are those of the filtered view of
\* the render for the same term and columns, whatever the sort and the page;
\* the file has one header line naming the visible columns in their declared
\* order and one line per record, which reads back as one value per visible
\* column, in that order
C21_Export ==
    (Rendered /\ Exported) =>
        LET lines == ReadLines(exported.csvContent)
            none == ShownKeys = <<>>
        IN /\ IdsOf(exported.data) = IdsOf(view.filtered)
           /\ Cardinality(IdsOf(exported.data)) = Len(exported.data)
           /\ Len(lines) = 1 + Len(exported.data)
           /\ IF none THEN lines[1] = <<>>
                      ELSE ReadCsvLine(lines[1])
                               = [j \in 1..Len(ShownKeys) |-> KeyText[ShownKeys[j]]]
           /\ \A i \in 1..Len(exported.data) :
                  IF none THEN lines[i + 1] = <<>>
                  ELSE ReadCsvLine(lines[i + 1])
                           = [j \in 1..Len(ShownKeys) |->
                                 FieldString(exported.data[i], ShownKeys[j])]

\* an export of a filtered set behind a hidden column, sorted by name and
\* looked at on a page that shows none of it
C21_Witness ==
    /\ Rendered /\ Exported
    /\ ~visibleColumns["email"]
    /\ sortConfig.key = "name"
    /\ currentPage > 1
    /\ Len(exported.data) > 1
    /\ Len(exported.data) < Len(submissions)
    /\ Len(view.paginated) < Len(exported.data)

JaneName ==
    <<"J", "a", "n", "e", " ", Quote, "J", "J", Quote, " ", "D", "o", "e", ",", " ", "E", "s", "q", ".">>
JaneCsv ==
    <<Quote, "J", "a", "n", "e", " ", Quote, Quote, "J", "J", Quote, Quote, " ", "D", "o", "e", ",",
      " ", "E", "s", "q", ".", Quote>>

\* the cell is the value between two quotes, each quote of the value written twice
QuotedForm(cell, value) ==
    /\ Len(cell) >= 2
    /\ cell[1] = Quote
    /\ cell[Len(cell)] = Quote
    /\ LET inner == SubSeq(cell, 2, Len(cell) - 1)
       IN /\ Len(inner) = Len(value) + QuotesUpTo(value, Len(value))
          /\ \A k \in 1..Len(inner) :
                 (inner[k] = Quote /\ QuotesUpTo(inner, k) % 2 = 1)
                     => (k < Len(inner) /\ inner[k + 1] = Quote)
          /\ ReadCsvValue(cell) = value

\* C22: every string value is written between double quotes with each of
\* its own double quotes doubled, Jane "JJ" Doe, Esq. as
\* "Jane ""JJ"" Doe, Esq."; an empty value is written as the empty quoted
\* value "" and the export does not fail
C22_Quoting ==
    Exported =>
        /\ error = Null
        /\ \A i \in 1..Len(exported.data) : \A j \in 1..Len(ShownKeys) :
               LET key == ShownKeys[j]
                   value == exported.data[i][key]
                   cell == exported.cells[i][j]
               IN key # "submittedAt" =>
                      /\ QuotedForm(cell, value)
                      /\ value = JaneName => cell = JaneCsv
                      /\ value = <<>> => cell = <<Quote, Quote>>

\* a file with the name of Jane "JJ" Doe, Esq. and an empty message in it
C22_Witness ==
    /\ Exported
    /\ visibleColumns["name"] /\ visibleColumns["message"]
    /\ \E i \in 1..Len(exported.data) : exported.cells[i][1] = JaneCsv
    /\ \E i \in 1..Len(exported.data) :
           /\ exported.data[i].message = <<>>
           /\ exported.cells[i][3] = <<Quote, Quote>>
    /\ Includes(exported.csvContent, JaneCsv \o <<",">>)

-----------------------------------------------------------------------------
(* Claims about the load *)

Loaded == ~loading /\ error = Null /\ Len(submissions) = Len(docs)

NotAvailable == <<"N", "/", "A">>
NoVisitorData(d) == d.data.visitorData = NullObj
NoLocation(d) == NoVisitorData(d) \/ d.data.visitorData.location = NullObj

\* two texts with ", " between them when neither is missing
WithComma(a, b) ==
    IF a = <<>> THEN b ELSE IF b = <<>> THEN a ELSE a \o <<",", " ">> \o b

\* the present parts of the location of a document, in the order city,
\* region, country, with ", " between them; N/A when there is none
DisplayOf(d) ==
    IF NoLocation(d) THEN NotAvailable
    ELSE LET location == d.data.visitorData.location
             parts == WithComma(WithComma(location.city, location.region), location.country)
         IN IF parts = <<>> THEN NotAvailable ELSE parts

OnlyCity(d) ==
    /\ ~NoLocation(d)
    /\ d.data.visitorData.location.city # <<>>
    /\ d.data.visitorData.location.region = <<>>
    /\ d.data.visitorData.location.country = <<>>

DisplayStrings ==
    \A i \in 1..Len(docs) :
        /\ submissions[i].location = DisplayOf(docs[i])
        /\ OnlyCity(docs[i]) => submissions[i].location = docs[i].data.visitorData.location.city

Blank(r) == r.ipAddress = <<>> /\ r.deviceInfo = <<>> /\ r.screenResolution = <<>>

\* C23 as stated: the display string of every record is the present parts
\* joined with ", ", N/A when there is none, and a record with absent
\* location has no map link and blank ip and device fields
C23_Original ==
    Loaded =>
        /\ DisplayStrings
        /\ \A i \in 1..Len(docs) :
               NoLocation(docs[i]) =>
                   /\ submissions[i].googleMapsUrl = NullStr
                   /\ Blank(submissions[i])

\* C23: the display string of every record is the present parts joined with
\* ", ", N/A when there is none; a record with absent location has no map
\* link, and one with absent visitorData has blank ip and device fields too
C23_LocationString ==
    Loaded =>
        /\ DisplayStrings
        /\ \A i \in 1..Len(docs) :
               /\ NoLocation(docs[i]) => submissions[i].googleMapsUrl = NullStr
               /\ NoVisitorData(docs[i]) => Blank(submissions[i])

\* a record with a city and nothing else next to one without visitorData
C23_Witness ==
    /\ Loaded
    /\ \E i \in 1..Len(docs) :
           /\ OnlyCity(docs[i])
           /\ submissions[i].location = <<"K", "a", "n", "d", "y">>
    /\ \E i \in 1..Len(docs) :
           /\ NoVisitorData(docs[i])
           /\ submissions[i].location = NotAvailable
           /\ Blank(submissions[i])

Latitude(d) == IF NoLocation(d) THEN NullNum ELSE d.data.visitorData.location.latitude
Longitude(d) == IF NoLocation(d) THEN NullNum ELSE d.data.visitorData.location.longitude

\* C24: a record has a coordinates string and a map link only when its
\* location has both a latitude and a longitude; when either is null or
\* absent both are null; the map link is non-null exactly when the
\* coordinates string is
C24_Coordinates ==
    Loaded =>
        \A i \in 1..Len(docs) :
            LET r == submissions[i]
                both == Latitude(docs[i]) # NullNum /\ Longitude(docs[i]) # NullNum
            IN /\ (r.coordinates # NullStr \/ r.googleMapsUrl # NullStr) => both
               /\ ~both => (r.coordinates = NullStr /\ r.googleMapsUrl = NullStr)
               /\ r.googleMapsUrl # NullStr <=> r.coordinates # NullStr
               /\ r.coordinates # NullStr =>
                      r.googleMapsUrl = <<MapsPrefix \o r.coordinates[1]>>
               /\ (Latitude(docs[i]) = <<7>> /\ Longitude(docs[i]) = <<80>>) =>
                      r.coordinates = << <<"7", ",", " ", "8", "0">> >>

\* a record with both next to one that has a latitude and no longitude
C24_Witness ==
    /\ Loaded
    /\ \E i \in 1..Len(docs) :
           /\ submissions[i].coordinates = << <<"7", ",", " ", "8", "0">> >>
           /\ submissions[i].googleMapsUrl # NullStr
    /\ \E i \in 1..Len(docs) :
           /\ Latitude(docs[i]) = <<7>>
           /\ Longitude(docs[i]) = NullNum
           /\ submissions[i].coordinates = NullStr

\* a stored submittedAt that denotes a point in time: a Timestamp of the
\* store, a Date, a number, a string that parses
StoredValid(stored) ==
    \/ stored.kind \in {"timestamp", "date", "number"}
    \/ stored.kind = "string" /\ ParseDate(stored.text) # NullNum

\* the point in time it denotes
StoredInstant(stored) ==
    CASE stored.kind = "timestamp" -> stored.seconds - Origin
      [] stored.kind = "date" -> stored.time
      [] stored.kind = "number" -> stored.value - Origin
      [] stored.kind = "string" -> ParseDate(stored.text)[1]

\* C25 as stated: a loaded record whose stored submittedAt is missing, of an
\* unsupported type or unparsable has the time of the load as its
\* submittedAt, and one whose stored submittedAt is valid (Timestamp, Date,
\* parsable string, number) keeps that point in time
C25_Original ==
    Loaded =>
        \A i \in 1..Len(docs) :
            LET stored == docs[i].data.submittedAt
                submittedAt == submissions[i].submittedAt
            IN IF StoredValid(stored)
                  THEN submittedAt = StoredInstant(stored)
                  ELSE submittedAt \in Nows /\ submittedAt <= statsAt

\* the in-memory records are those of the documents, one each, in their order
WholeSet(subs) ==
    /\ Len(subs) = Len(docs)
    /\ \A i \in 1..Len(docs) : subs[i].id = docs[i].id

\* C26: when the read of the listing fails the dashboard leaves the loading
\* state with the error set and no record in memory; when it succeeds the
\* whole mapped set is installed in one step, in the order of the store,
\* and no error is set; no partial set is in memory at any time
C26_Load ==
    /\ [](loading => (submissions = <<>> /\ error = Null))
    /\ [](submissions = <<>> \/ (WholeSet(submissions) /\ error = Null))
    /\ [][loading =>
             /\ ~loading'
             /\ \/ error' # Null /\ submissions' = <<>>
                \/ error' = Null /\ WholeSet(submissions')]_vars

\* a collection of two documents in memory after a load
C26_Witness ==
    /\ Loaded
    /\ Len(submissions) >= 2
    /\ submissions[1].id = "A" /\ submissions[2].id = "B"
    /\ submissions[1].name # submissions[2].name

-----------------------------------------------------------------------------
(* Claims about the order of the sorted view *)

\* the value of the sort key with the case of its letters removed
KeyOf(r) == ToLowerCase(FieldString(r, sortConfig.key))

\* C30 as stated: two records of the sorted view that both have a non-empty
\* value for the sort key are in the order of the case-insensitive
\* comparison of those values, non-decreasing when ascending, non-increasing
\* when descending, whatever values the other records have
C30_Original ==
    Rendered =>
        \A i \in 1..Len(view.filtered) :
            \A j \in (i + 1)..Len(view.filtered) :
                (FieldTruthy(view.filtered[i], sortConfig.key)
                    /\ FieldTruthy(view.filtered[j], sortConfig.key)) =>
                    IF sortConfig.direction = "asc"
                       THEN LocaleCompare(KeyOf(view.filtered[i]), KeyOf(view.filtered[j])) <= 0
                       ELSE LocaleCompare(KeyOf(view.filtered[i]), KeyOf(view.filtered[j])) >= 0

-----------------------------------------------------------------------------
(* Claims about coordinates on the equator or the prime meridian *)

\* C33 as stated: a record whose location has a latitude and a longitude,
\* the value 0 included, has the coordinates string "<lat>, <lng>" and a
\* map link
C33_Original ==
    Loaded =>
        \A i \in 1..Len(docs) :
            (Latitude(docs[i]) # NullNum /\ Longitude(docs[i]) # NullNum) =>
                /\ submissions[i].coordinates
                       = << NumberToString(Latitude(docs[i])[1]) \o <<",", " ">>
                               \o NumberToString(Longitude(docs[i])[1]) >>
                /\ submissions[i].googleMapsUrl # NullStr

-----------------------------------------------------------------------------
(* Claims about bulk deletes that overlap *)

\* every bulk delete has completed, none with a failed store delete
AllCompleted ==
    /\ bulk = <<>>
    /\ error = Null
    /\ lastDone # NullObj
    /\ lastDone.state = "resolved"

\* the bulk delete that completed last was confirmed on a view holding a
\* record that another bulk delete has deleted from the store: the two
\* were pending at the same time
Overlapped ==
    \E i \in 1..Len(lastDone.subs) :
        /\ lastDone.subs[i].id \notin Range(lastDone.sel)
        /\ lastDone.subs[i].id \notin IdsOf(docs)

\* C31 as stated: when two bulk deletes overlap and all their store deletes
\* succeed, then once both have completed, in whichever order, no record
\* whose store delete succeeded is in the in-memory view
C31_Original ==
    (AllCompleted /\ Overlapped) =>
        \A i \in 1..Len(submissions) : submissions[i].id \in IdsOf(docs)

-----------------------------------------------------------------------------
(* Claims about the selection *)

\* C32: after any sequence of operations of the dashboard every selected id
\* is the id of a record of the in-memory set, and no id is selected twice
C32_Selection ==
    /\ Range(selectedItems) \subseteq IdsOf(submissions)
    /\ Cardinality(Range(selectedItems)) = Len(selectedItems)

\* the record left by a bulk delete of the one before it, selected behind a
\* search that hides it
C32_Witness ==
    /\ TableShown
    /\ Len(submissions) = 1
    /\ submissions[1].id = "B"
    /\ selectedItems = <<"B">>
    /\ FilteredSubmissions = <<>>

====
